---- MODULE Spec2Model ----
(***************************************************************************)
(* State-machine model of the social-analytics dashboard's request         *)
(* handlers and of the database objects they act on:                       *)
(*   - the mentions table with its sentiment-analytics trigger,            *)
(*   - the analyze, ingest, schedule, generate and billing-webhook         *)
(*     handlers.                                                           *)
(* In the sequential specifications every handler is one action (requests  *)
(* are handled one at a time); the response of the last request is kept in *)
(* lastOp so that properties of responses can be stated.  The concurrent   *)
(* specifications split a handler at the points where it awaits the store  *)
(* or an external service, and keep each request's position in inflight.   *)
(*                                                                         *)
(* Numbers: sentiment scores returned by the classifier are in hundredths  *)
(* (725 = 7.25); NUMERIC(3,1) columns are in tenths (73 = 7.3).            *)
(***************************************************************************)
EXTENDS Integers, Sequences, FiniteSets, TLC

VARIABLES
  mentions,        \* table mentions: sequence of rows, id = position
  analytics,       \* table sentiment_analytics: set of rows
  businesses,      \* table businesses: sequence of rows, id = position
  scheduledPosts,  \* table scheduled_posts: sequence of rows, id = position
  generatedPosts,  \* table generated_posts: sequence of rows, id = position
  apiUsage,        \* table api_usage: sequence of rows
  paymentHistory,  \* table payment_history: sequence of rows
  now,             \* wall clock, in ticks
  lastOp,          \* the last request handled and its response
  inflight         \* requests being handled: slot -> the handler's position
                   \* and local variables (concurrent specifications)

vars == <<mentions, analytics, businesses, scheduledPosts, generatedPosts,
          apiUsage, paymentHistory, now, lastOp, inflight>>

(***************************************************************************)
(* Bounds of the model.                                                    *)
(***************************************************************************)
NumMentions == 3      \* rows in the mentions table of the analyze model
MaxIds == 2           \* longest mentionIds list of a by-IDs request
TicksPerDay == 2      \* clock ticks per calendar day
MaxFetched == 2       \* longest list of mentions a platform fetch returns
MaxRows == 4          \* rows the mentions table of the ingest model may hold
MaxNewPosts == 1      \* scheduled posts created in the schedule models
MaxElapsed == 1       \* longest time a create request takes
MaxNow == 1           \* last clock value of the schedule models
MaxBusinesses == 3    \* rows the businesses table may hold
MaxPayments == 1      \* rows the payment_history table may hold
DaysPerMonth == 2     \* days per calendar month
MaxUsageRows == 3     \* rows the api_usage table may hold
MaxDrafts == 2        \* generated posts after which no more are requested
MaxReturned == 2      \* most posts the LLM returns
MaxRequests == 2      \* requests handled concurrently

(***************************************************************************)
(* Values shared by the tables.                                            *)
(***************************************************************************)
NullNum == -100000    \* SQL NULL in a numeric column
NullStr == "null"     \* SQL NULL in a text column
NoUser == "anonymous" \* getCurrentUser() returned null
Users == {"u1", "u2"}
Labels == {"positive", "negative", "neutral"}

Min(a, b) == IF a < b THEN a ELSE b
Max(a, b) == IF a > b THEN a ELSE b

\* F applied to the value of v, which is computed once.
With(v, F(_)) == CHOOSE r \in {F(x) : x \in {v}} : TRUE

RECURSIVE SumOver(_, _)
SumOver(f, S) ==
  IF S = {} THEN 0
  ELSE With(CHOOSE y \in S : TRUE, LAMBDA x : f[x] + SumOver(f, S \ {x}))

\* Rounding of s/n to an integer, half away from zero (PostgreSQL numeric).
RoundDiv(s, n) ==
  IF s >= 0 THEN (2 * s + n) \div (2 * n)
  ELSE -((2 * (-s) + n) \div (2 * n))

\* A value assigned to a NUMERIC(3,1) column, given in hundredths: the
\* stored value in tenths, or an overflow error when |value| >= 100.0.
Numeric31Overflow(hundredths) ==
  LET t == RoundDiv(hundredths, 10) IN t >= 1000 \/ t <= -1000
Numeric31(hundredths) == RoundDiv(hundredths, 10)

\* DATE(posted_at)
DateOf(ts) == ts \div TicksPerDay

(***************************************************************************)
(* sentiment_analytics and its trigger.                                    *)
(***************************************************************************)
ScoredOn(ments, u, d) ==
  {i \in DOMAIN ments : /\ ments[i].user_id = u
                        /\ DateOf(ments[i].posted_at) = d
                        /\ ments[i].sentiment_score # NullNum}

LabelCount(ments, S, l) == Cardinality({i \in S : ments[i].sentiment_label = l})

\* AVG(sentiment_score) stored in the NUMERIC(3,1) column average_score.
AvgScore(ments, S) ==
  IF S = {} THEN NullNum
  ELSE RoundDiv(SumOver([i \in S |-> ments[i].sentiment_score], S), Cardinality(S))

\* The SELECT of the trigger without its user_id condition.
AggregateRow_AllTenants(ments, u, d) ==
  LET S == {i \in DOMAIN ments : /\ DateOf(ments[i].posted_at) = d
                                 /\ ments[i].sentiment_score # NullNum} IN
  [user_id |-> u, date |-> d,
   positive_count |-> LabelCount(ments, S, "positive"),
   negative_count |-> LabelCount(ments, S, "negative"),
   neutral_count  |-> LabelCount(ments, S, "neutral"),
   average_score  |-> AvgScore(ments, S),
   total_mentions |-> Cardinality(S)]

\* The SELECT of the trigger: one aggregate row for (u, d).
AggregateRow(ments, u, d) ==
  With(ScoredOn(ments, u, d),
       LAMBDA S : [user_id |-> u, date |-> d,
                   positive_count |-> LabelCount(ments, S, "positive"),
                   negative_count |-> LabelCount(ments, S, "negative"),
                   neutral_count  |-> LabelCount(ments, S, "neutral"),
                   average_score  |-> AvgScore(ments, S),
                   total_mentions |-> Cardinality(S)])

\* INSERT ... ON CONFLICT (user_id, date) DO UPDATE SET <all aggregates>.
UpsertAnalytics(an, row) ==
  {r \in an : ~(r.user_id = row.user_id /\ r.date = row.date)} \cup {row}

\* update_sentiment_analytics(), AFTER INSERT OR UPDATE FOR EACH ROW.  old is
\* the row before the statement (sentiment NULL for an INSERT), new the row
\* after it, ments the table after it.
update_sentiment_analytics(old, new, ments, an) ==
  IF /\ new.sentiment_score # NullNum
     /\ (old.sentiment_score = NullNum \/ new.sentiment_score # old.sentiment_score)
  THEN UpsertAnalytics(an, AggregateRow(ments, new.user_id, DateOf(new.posted_at)))
  ELSE an

(***************************************************************************)
(* The sentiment classifier (analyzeSentimentWithClaude).  A reply is what *)
(* the external API answers: an HTTP failure, or a JSON object whose score *)
(* is in hundredths.                                                       *)
(***************************************************************************)
Failures == {"http_error", "invalid", "overflow"}
Outcomes == {"ok"} \cup Failures

\* The outcomes of the classifier calls of one request, one per item: any
\* subset of the items fails, all of them in the same way.
OutcomeSeqs(n) ==
  {[i \in 1..n |-> IF i \in F THEN f ELSE "ok"] : f \in Failures, F \in SUBSET (1..n)}

\* What the classifier answers for a text when it answers properly: the
\* answer depends on the text only.  One of the scores lies outside 0..10.
OkReplies ==
  << [http |-> TRUE, score |-> 700,  label |-> "positive", reasoning |-> "r1"],
     [http |-> TRUE, score |-> 725,  label |-> "neutral",  reasoning |-> "r2"],
     [http |-> TRUE, score |-> 1200, label |-> "negative", reasoning |-> "r3"] >>

\* The reply to a request for the text with token content: a proper answer,
\* an HTTP failure, an answer with a label outside the enumeration, or an
\* answer whose score does not fit the sentiment_score column.
ClassifierReply(content, outcome) ==
  CASE outcome = "ok" -> OkReplies[(content % Len(OkReplies)) + 1]
    [] outcome = "http_error" ->
         [http |-> FALSE, score |-> 0, label |-> "neutral", reasoning |-> "r0"]
    [] outcome = "invalid" ->
         [http |-> TRUE, score |-> 500, label |-> "mixed", reasoning |-> "r4"]
    [] outcome = "overflow" ->
         [http |-> TRUE, score |-> 10000, label |-> "neutral", reasoning |-> "r5"]

ErrClaudeApi == "Claude API error"
ErrInvalidResult == "Invalid sentiment analysis result from Claude"
ErrAnalysisFailed == "Analysis failed"
ErrNotFound == "Mention not found or access denied"

MsgNoUnanalyzed == "No unanalyzed mentions found"

NoSentiment == [score |-> NullNum, label |-> NullStr, reasoning |-> NullStr]

analyzeSentimentWithClaude(reply) ==
  IF ~reply.http THEN [ok |-> FALSE, error |-> ErrClaudeApi, sentiment |-> NoSentiment]
  ELSE IF reply.label \notin Labels
  THEN [ok |-> FALSE, error |-> ErrInvalidResult, sentiment |-> NoSentiment]
  ELSE [ok |-> TRUE, error |-> NullStr,
        sentiment |-> [score |-> reply.score, label |-> reply.label,
                       reasoning |-> reply.reasoning]]

(***************************************************************************)
(* The mentions table.                                                     *)
(***************************************************************************)
Scored(m) == m.sentiment_score # NullNum

\* supabase.from('mentions').update({sentiment_*}).eq('id', id).eq('user_id', u)
\* followed by the row trigger.  The score is converted to NUMERIC(3,1); a
\* value that does not fit makes the statement fail.
UpdateMentionSentiment(ments, an, id, u, sentiment) ==
  IF Numeric31Overflow(sentiment.score)
  THEN [error |-> TRUE, mentions |-> ments, analytics |-> an]
  ELSE IF id \in DOMAIN ments /\ ments[id].user_id = u
  THEN With([ments[id] EXCEPT
                    !.sentiment_score = Numeric31(sentiment.score),
                    !.sentiment_label = sentiment.label,
                    !.sentiment_reasoning = sentiment.reasoning],
            LAMBDA new :
              With([ments EXCEPT ![id] = new],
                   LAMBDA ments2 :
                     [error |-> FALSE, mentions |-> ments2,
                      analytics |-> update_sentiment_analytics(ments[id], new, ments2, an)]))
  ELSE [error |-> FALSE, mentions |-> ments, analytics |-> an]

(***************************************************************************)
(* POST /api/sentiment/analyze.                                            *)
(* A result carries, besides the fields of the response, two counters of   *)
(* what the handler did for the item: classifier calls and store writes.   *)
(***************************************************************************)
DefaultBatchSize == 10

Result(id, success, cached, sentiment, error, calls, writes) ==
  [mentionId |-> id, success |-> success, cached |-> cached,
   sentiment |-> sentiment, error |-> error, calls |-> calls, writes |-> writes]

\* The try block with a catch that records nothing for a failed item.
ClassifyAndStore_DropFailure(st, id, u, reply) ==
  LET r == analyzeSentimentWithClaude(reply) IN
  IF ~r.ok THEN st
  ELSE LET upd == UpdateMentionSentiment(st.mentions, st.analytics, id, u, r.sentiment) IN
       IF upd.error THEN st
       ELSE [mentions |-> upd.mentions, analytics |-> upd.analytics,
             results |-> Append(st.results,
                                Result(id, TRUE, FALSE, r.sentiment, NullStr, 1, 1))]

\* Classify one mention and persist the result: the body of the try block.
ClassifyAndStore(st, id, u, reply) ==
  LET r == analyzeSentimentWithClaude(reply) IN
  IF ~r.ok
  THEN [st EXCEPT !.results = Append(@, Result(id, FALSE, FALSE, NoSentiment, r.error, 1, 0))]
  ELSE With(UpdateMentionSentiment(st.mentions, st.analytics, id, u, r.sentiment),
            LAMBDA upd :
              IF upd.error
              THEN [st EXCEPT !.results =
                      Append(@, Result(id, FALSE, FALSE, NoSentiment, ErrAnalysisFailed, 1, 1))]
              ELSE [mentions |-> upd.mentions, analytics |-> upd.analytics,
                    results |-> Append(st.results,
                                       Result(id, TRUE, FALSE, r.sentiment, NullStr, 1, 1))])

\* The by-IDs iteration with a fetch by id alone.
ByIdsStep_AnyOwner(st, id, u, reply) ==
  IF id \notin DOMAIN st.mentions
  THEN [st EXCEPT !.results = Append(@, Result(id, FALSE, FALSE, NoSentiment, ErrNotFound, 0, 0))]
  ELSE ClassifyAndStore(st, id, u, reply)

\* The by-IDs iteration without the already-analyzed check.
ByIdsStep_NoCacheCheck(st, id, u, reply) ==
  IF ~(id \in DOMAIN st.mentions /\ st.mentions[id].user_id = u)
  THEN [st EXCEPT !.results = Append(@, Result(id, FALSE, FALSE, NoSentiment, ErrNotFound, 0, 0))]
  ELSE ClassifyAndStore(st, id, u, reply)

\* One iteration of the by-IDs loop.
ByIdsStep(st, id, u, reply) ==
  IF ~(id \in DOMAIN st.mentions /\ st.mentions[id].user_id = u)
  THEN [st EXCEPT !.results = Append(@, Result(id, FALSE, FALSE, NoSentiment, ErrNotFound, 0, 0))]
  ELSE IF Scored(st.mentions[id])
  THEN LET m == st.mentions[id] IN
       [st EXCEPT !.results =
          Append(@, Result(id, TRUE, TRUE,
                           [score |-> 10 * m.sentiment_score,
                            label |-> m.sentiment_label,
                            reasoning |-> m.sentiment_reasoning],
                           NullStr, 0, 0))]
  ELSE ClassifyAndStore(st, id, u, reply)

\* The loops: each iteration starts from the state s the iteration before
\* it has left.
RECURSIVE ByIdsLoop(_, _, _, _, _)
ByIdsLoop(st, ids, u, replies, k) ==
  IF k > Len(ids) THEN st
  ELSE With(ByIdsStep(st, ids[k], u, replies[k]),
            LAMBDA s : ByIdsLoop(s, ids, u, replies, k + 1))

RECURSIVE BatchLoop(_, _, _, _, _)
BatchLoop(st, sel, u, replies, k) ==
  IF k > Len(sel) THEN st
  ELSE With(ClassifyAndStore(st, sel[k], u, replies[k]),
            LAMBDA s : BatchLoop(s, sel, u, replies, k + 1))

CountResults(results, P(_)) == Cardinality({i \in DOMAIN results : P(results[i])})

\* The rows of user u whatever their sentiment_score, in table order.
UnanalyzedIds_AnyScore(ments, u) ==
  LET RECURSIVE Collect(_)
      Collect(i) == IF i > Len(ments) THEN <<>>
                    ELSE IF ments[i].user_id = u
                    THEN <<i>> \o Collect(i + 1)
                    ELSE Collect(i + 1)
  IN  Collect(1)

\* The rows of user u with sentiment_score IS NULL, in table order.
UnanalyzedIds(ments, u) ==
  LET RECURSIVE Collect(_)
      Collect(i) == IF i > Len(ments) THEN <<>>
                    ELSE IF ments[i].user_id = u /\ ~Scored(ments[i])
                    THEN <<i>> \o Collect(i + 1)
                    ELSE Collect(i + 1)
  IN  Collect(1)

\* The order in which the store returns rows is unspecified (no ORDER BY):
\* the rows come back in table order starting at any row.
Rotate(s, off) == SubSeq(s, off + 1, Len(s)) \o SubSeq(s, 1, off)

\* The selection without its LIMIT.
SelectUnanalyzed_NoLimit(ments, u, lim, off) == Rotate(UnanalyzedIds(ments, u), off)

\* SELECT ... WHERE user_id = u AND sentiment_score IS NULL LIMIT lim
SelectUnanalyzed(ments, u, lim, off) ==
  LET all == Rotate(UnanalyzedIds(ments, u), off) IN
  SubSeq(all, 1, Min(lim, Len(all)))

NoRequest == [kind |-> "none"]

\* The slots of concurrent requests, all idle.
Slots == 1..MaxRequests
Idle == [pc |-> "idle"]
NoRequests == [p \in Slots |-> Idle]

\* The response, with the request it answers.  ids are the mentions the
\* request named (by-IDs) or selected (batch); replies and unanalyzed record
\* what the classifier answered and which rows of the requester had no
\* sentiment when the request started.
AnalyzeResponse(u, mode, status, body, ids, results, replies) ==
  [kind |-> "analyze", user |-> u, mode |-> mode, status |-> status,
   batchSize |-> body.batchSize, ids |-> ids, results |-> results,
   analyzed |-> CountResults(results, LAMBDA r : r.success /\ ~r.cached),
   cached |-> IF mode = "ids"
              THEN CountResults(results, LAMBDA r : r.success /\ r.cached) ELSE 0,
   failed |-> CountResults(results, LAMBDA r : ~r.success),
   remaining |-> IF mode = "batch"
                 THEN Max(0, Len(ids) - CountResults(results, LAMBDA r : r.success))
                 ELSE 0,
   message |-> IF mode = "batch" /\ ids = <<>> THEN MsgNoUnanalyzed ELSE NullStr,
   replies |-> replies,
   unanalyzed |-> {i \in DOMAIN mentions : mentions[i].user_id = u /\ ~Scored(mentions[i])}]

\* The handler.  body is the JSON body: mentionIds (<<>> when absent),
\* content (NullStr when absent), batchSize (0 when absent).  replies are the
\* classifier's answers, one per item, off the row the store starts from.
AnalyzePOST(u, body, replies, off) ==
  LET st0 == [mentions |-> mentions, analytics |-> analytics, results |-> <<>>] IN
  IF u = NoUser
  THEN [st |-> st0, resp |-> AnalyzeResponse(u, "none", 401, body, <<>>, <<>>, <<>>)]
  ELSE IF Len(body.mentionIds) > 0
  THEN With(ByIdsLoop(st0, body.mentionIds, u, replies, 1),
            LAMBDA st : [st |-> st,
                         resp |-> AnalyzeResponse(u, "ids", 200, body, body.mentionIds,
                                                  st.results, replies)])
  ELSE IF body.content # NullStr
  THEN LET r == analyzeSentimentWithClaude(replies[1]) IN
       [st |-> st0,
        resp |-> AnalyzeResponse(u, "content", IF r.ok THEN 200 ELSE 500, body, <<>>,
                   IF r.ok THEN <<Result(0, TRUE, FALSE, r.sentiment, NullStr, 1, 0)>>
                   ELSE <<>>, replies)]
  ELSE LET batchSize == IF body.batchSize # 0 THEN body.batchSize ELSE DefaultBatchSize IN
       With(SelectUnanalyzed(mentions, u, batchSize, off),
            LAMBDA sel :
              With(BatchLoop(st0, sel, u, replies, 1),
                   LAMBDA st : [st |-> st,
                                resp |-> AnalyzeResponse(u, "batch", 200, body, sel,
                                                         st.results, replies)]))

AnalyzeCommit(handled) ==
  \E out \in {handled} :
    /\ mentions' = out.st.mentions
    /\ analytics' = out.st.analytics
    /\ lastOp' = out.resp
  /\ UNCHANGED <<businesses, scheduledPosts, generatedPosts, apiUsage,
                 paymentHistory, now, inflight>>

IdLists == UNION {[1..n -> 1..(NumMentions + 1)] : n \in 1..MaxIds}
BatchSizes == 0..NumMentions

\* The replies a by-IDs request meets: one per id the classifier may be
\* called for (a row of the requester that is unanalyzed when the request
\* starts); the other positions are never read.
IdsReplySeqs(u, ids) ==
  LET need == {i \in 1..Len(ids) : /\ ids[i] \in DOMAIN mentions
                                   /\ mentions[ids[i]].user_id = u
                                   /\ ~Scored(mentions[ids[i]])}
  IN  {[i \in 1..Len(ids) |->
          IF i \in need THEN ClassifierReply(mentions[ids[i]].content, outs[i])
          ELSE ClassifierReply(0, "http_error")] :
       outs \in OutcomeSeqs(Len(ids))}

\* The replies a batch request meets for the rows it selected.
BatchReplySeqs(sel) ==
  {[i \in 1..Len(sel) |-> ClassifierReply(mentions[sel[i]].content, outs[i])] :
     outs \in OutcomeSeqs(Len(sel))}

AnalyzeByIds ==
  \E u \in Users, ids \in IdLists :
    \E replies \in IdsReplySeqs(u, ids) :
      AnalyzeCommit(AnalyzePOST(u, [mentionIds |-> ids, content |-> NullStr,
                                    batchSize |-> 0], replies, 0))

AnalyzeContent ==
  \E u \in Users, outcome \in Outcomes :
    AnalyzeCommit(AnalyzePOST(u, [mentionIds |-> <<>>, content |-> "text",
                                  batchSize |-> 0],
                              <<ClassifierReply(0, outcome)>>, 0))

AnalyzeBatch ==
  \E u \in Users, b \in BatchSizes :
    \E off \in 0..Max(0, Len(UnanalyzedIds(mentions, u)) - 1) :
      \E replies \in BatchReplySeqs(SelectUnanalyzed(mentions, u,
                       IF b # 0 THEN b ELSE DefaultBatchSize, off)) :
        AnalyzeCommit(AnalyzePOST(u, [mentionIds |-> <<>>, content |-> NullStr,
                                      batchSize |-> b], replies, off))

AnalyzeUnauthorized ==
  AnalyzeCommit(AnalyzePOST(NoUser, [mentionIds |-> <<1>>, content |-> NullStr,
                                     batchSize |-> 0], <<>>, 0))

\* A batch request of tenant u that meets a classifier that answers every
\* text properly.
AnalyzeBatchOk(u) ==
  \E b \in BatchSizes :
    \E off \in 0..Max(0, Len(UnanalyzedIds(mentions, u)) - 1) :
      \E sel \in {SelectUnanalyzed(mentions, u, IF b # 0 THEN b ELSE DefaultBatchSize, off)} :
        \E replies \in {[i \in 1..Len(sel) |->
                           ClassifierReply(mentions[sel[i]].content, "ok")]} :
          AnalyzeCommit(AnalyzePOST(u, [mentionIds |-> <<>>, content |-> NullStr,
                                        batchSize |-> b], replies, off))

\* A by-IDs request that meets the same classifier.
AnalyzeByIdsOk ==
  \E u \in Users, ids \in IdLists :
    AnalyzeCommit(AnalyzePOST(u, [mentionIds |-> ids, content |-> NullStr, batchSize |-> 0],
                              [i \in 1..Len(ids) |->
                                 ClassifierReply(IF ids[i] \in DOMAIN mentions
                                                 THEN mentions[ids[i]].content ELSE 0,
                                                 "ok")],
                              0))

(***************************************************************************)
(* The analyze handler with concurrent requests.  A by-IDs request awaits  *)
(* the store for the fetch of each mention and then the classifier and the *)
(* store for its update; a batch request awaits the store for its          *)
(* selection and then the classifier and the store for each update.  Other *)
(* requests run at every await.  A finished request stays in its slot with *)
(* the results it answered.                                                *)
(***************************************************************************)
\* What the classifier may answer a concurrent request: it need not answer
\* the same text the same way twice.
ConcurrentReplies ==
  {ClassifierReply(0, "ok"), ClassifierReply(1, "ok"), ClassifierReply(0, "http_error")}

\* The request in slot p after item k: the next item, or the response.
NextItem(loc, results, pc) ==
  [loc EXCEPT !.results = results,
              !.k = @ + 1,
              !.pc = IF loc.k + 1 > Len(loc.ids) THEN "done" ELSE pc]

AnalyzeUpdate(p, loc) ==
  /\ inflight' = [inflight EXCEPT ![p] = loc]
  /\ UNCHANGED <<mentions, analytics, businesses, scheduledPosts, generatedPosts,
                 apiUsage, paymentHistory, now, lastOp>>

\* A by-IDs request of tenant u1 arrives.
AnalyzeStartByIds(p) ==
  \E ids \in IdLists :
    /\ inflight[p] = Idle
    /\ AnalyzeUpdate(p, [pc |-> "fetch", handler |-> "analyze", user |-> "u1",
                          mode |-> "ids", ids |-> ids, k |-> 1, results |-> <<>>])

\* A batch request of tenant u1 arrives and selects its mentions.
AnalyzeStartBatch(p) ==
  \E b \in BatchSizes, off \in 0..Max(0, Len(UnanalyzedIds(mentions, "u1")) - 1) :
    LET sel == SelectUnanalyzed(mentions, "u1",
                                IF b # 0 THEN b ELSE DefaultBatchSize, off)
    IN  /\ inflight[p] = Idle
        /\ AnalyzeUpdate(p, [pc |-> IF sel = <<>> THEN "done" ELSE "classify",
                              handler |-> "analyze", user |-> "u1", mode |-> "batch",
                              ids |-> sel, k |-> 1, results |-> <<>>])

\* The by-IDs request in slot p fetches its next mention: not found, found
\* with a sentiment (cached), or to be classified.
AnalyzeFetchMention(p) ==
  LET loc == inflight[p]
      id == loc.ids[loc.k]
  IN  /\ loc.pc = "fetch"
      /\ IF id \in DOMAIN mentions /\ mentions[id].user_id = loc.user
            /\ ~Scored(mentions[id])
         THEN AnalyzeUpdate(p, [loc EXCEPT !.pc = "classify"])
         ELSE AnalyzeUpdate(p,
                NextItem(loc,
                         ByIdsStep([mentions |-> mentions, analytics |-> analytics,
                                    results |-> loc.results],
                                   id, loc.user, ClassifierReply(0, "http_error")).results,
                         "fetch"))

\* The request in slot p gets the classifier's answer for its current
\* mention and updates the row.
AnalyzeClassifyMention(p) ==
  \E reply \in ConcurrentReplies :
    LET loc == inflight[p]
        st == ClassifyAndStore([mentions |-> mentions, analytics |-> analytics,
                                results |-> loc.results],
                               loc.ids[loc.k], loc.user, reply)
    IN  /\ loc.pc = "classify"
        /\ mentions' = st.mentions
        /\ analytics' = st.analytics
        /\ inflight' = [inflight EXCEPT ![p] =
                          NextItem(loc, st.results,
                                   IF loc.mode = "ids" THEN "fetch" ELSE "classify")]
        /\ UNCHANGED <<businesses, scheduledPosts, generatedPosts, apiUsage,
                       paymentHistory, now, lastOp>>

(***************************************************************************)
(* The ingest handler (POST): fetches the mentions of a social account     *)
(* from its platform and stores the new ones.                              *)
(***************************************************************************)
\* The social accounts (the handlers only read them): the ingest handler
\* finds them by user_id, the schedule handler by business_id (the id of
\* the owner's row in businesses).  token_expires_at is a clock value or NULL.
SocialAccounts ==
  { [id |-> "a1", user_id |-> "u1", business_id |-> 1, platform |-> "twitter",
     is_active |-> TRUE, token_expires_at |-> NullNum],
    [id |-> "a2", user_id |-> "u2", business_id |-> 2, platform |-> "twitter",
     is_active |-> TRUE, token_expires_at |-> NullNum],
    [id |-> "a3", user_id |-> "u1", business_id |-> 1, platform |-> "facebook",
     is_active |-> FALSE, token_expires_at |-> NullNum],
    [id |-> "a4", user_id |-> "u1", business_id |-> 1, platform |-> "linkedin",
     is_active |-> TRUE, token_expires_at |-> -1],
    [id |-> "a5", user_id |-> "u2", business_id |-> 2, platform |-> "linkedin",
     is_active |-> TRUE, token_expires_at |-> 0] }

Platforms == {"instagram", "facebook", "twitter", "linkedin"}

\* The row the ingest handler inserts: no sentiment yet.
MentionRow(u, acct, content, author, postedAt) ==
  [user_id |-> u, social_account_id |-> acct, content |-> content,
   author |-> author, posted_at |-> postedAt,
   sentiment_score |-> NullNum, sentiment_label |-> NullStr,
   sentiment_reasoning |-> NullStr]

\* A mention as a platform returns it.
SocialMention(content) == [content |-> content, author |-> "author", postedAt |-> 0]

\* The rows the duplicate lookup matches.
MatchingRows(ments, u, acct, m) ==
  {i \in DOMAIN ments : /\ ments[i].user_id = u
                        /\ ments[i].social_account_id = acct
                        /\ ments[i].content = m.content
                        /\ ments[i].author = m.author
                        /\ ments[i].posted_at = m.postedAt}

\* .single(): data is the row when the query yields exactly one row, and
\* null (with an error) when it yields none or several.
SingleFound(S) == Cardinality(S) = 1

\* The expiry check left out.
TokenExpired_Never(socialAccount, t) == FALSE

\* socialAccount.token_expires_at && new Date(token_expires_at) < new Date()
TokenExpired(socialAccount, t) ==
  /\ socialAccount.token_expires_at # NullNum
  /\ socialAccount.token_expires_at < t

\* The loop body without the duplicate lookup.
IngestStep_NoLookup(st, m, u, acct, forceRefresh, insertOk) ==
  LET row == MentionRow(u, acct, m.content, m.author, m.postedAt)
      ments == Append(st.mentions, row)
  IN  IF insertOk
      THEN [st EXCEPT !.mentions = ments,
                      !.analytics = update_sentiment_analytics(row, row, ments, @),
                      !.inserted = Append(@, Len(ments))]
      ELSE [st EXCEPT !.insertErrors = @ + 1]

\* One iteration of the insert loop.  insertOk: the store accepts the insert.
IngestStep(st, m, u, acct, forceRefresh, insertOk) ==
  LET existing == SingleFound(MatchingRows(st.mentions, u, acct, m))
      row == MentionRow(u, acct, m.content, m.author, m.postedAt)
      ments == Append(st.mentions, row)
  IN  IF existing /\ ~forceRefresh
      THEN [st EXCEPT !.skipped = Append(@, m)]
      ELSE IF insertOk
      THEN [st EXCEPT !.mentions = ments,
                      !.analytics = update_sentiment_analytics(row, row, ments, @),
                      !.inserted = Append(@, Len(ments))]
      ELSE [st EXCEPT !.insertErrors = @ + 1]

RECURSIVE IngestLoop(_, _, _, _, _, _, _)
IngestLoop(st, fetched, u, acct, forceRefresh, insertOk, i) ==
  IF i > Len(fetched) THEN st
  ELSE IngestLoop(IngestStep(st, fetched[i], u, acct, forceRefresh, insertOk),
                  fetched, u, acct, forceRefresh, insertOk, i + 1)

\* The response, with the request it answers; insertErrors records how
\* many inserts the store refused and rowsBefore how many rows matched each
\* fetched mention when the request started; repeats are the fetched
\* mentions that the request handled just before, a completed run without
\* forceRefresh and without refused inserts for the same account, fetched
\* too (the response reports none of the three).  fetchCalls counts the
\* calls of a platform fetch the handler made.
IngestResponse(u, body, status, fetchCalls, fetched, st) ==
  [kind |-> "ingest", user |-> u, socialAccountId |-> body.socialAccountId,
   platform |-> body.platform, forceRefresh |-> body.forceRefresh,
   status |-> status, fetchCalls |-> fetchCalls,
   fetched |-> fetched, inserted |-> st.inserted,
   skipped |-> st.skipped, insertErrors |-> st.insertErrors,
   rowsBefore |-> [i \in DOMAIN fetched |->
                     Cardinality(MatchingRows(mentions, u, body.socialAccountId,
                                              fetched[i]))],
   repeats |-> IF /\ lastOp.kind = "ingest" /\ lastOp.status = 200
                  /\ ~lastOp.forceRefresh /\ lastOp.insertErrors = 0
                  /\ lastOp.user = u
                  /\ lastOp.socialAccountId = body.socialAccountId
               THEN {i \in DOMAIN fetched :
                       \E j \in DOMAIN lastOp.fetched : lastOp.fetched[j] = fetched[i]}
               ELSE {}]

\* The handler.  body: socialAccountId and platform (NullStr when absent),
\* forceRefresh (FALSE when absent).  fetch: what the platform answers.
IngestPOST(u, body, fetch, insertOk) ==
  LET st0 == [mentions |-> mentions, analytics |-> analytics, inserted |-> <<>>,
              skipped |-> <<>>, insertErrors |-> 0]
      found == {a \in SocialAccounts : a.id = body.socialAccountId /\ a.user_id = u}
      Reject(status) == [st |-> st0, resp |-> IngestResponse(u, body, status, 0, <<>>, st0)]
  IN  IF u = NoUser THEN Reject(401)
      ELSE IF body.socialAccountId = NullStr \/ body.platform = NullStr THEN Reject(400)
      ELSE IF ~SingleFound(found) THEN Reject(404)
      ELSE LET socialAccount == CHOOSE a \in found : TRUE IN
           IF ~socialAccount.is_active THEN Reject(400)
           ELSE IF TokenExpired(socialAccount, now) THEN Reject(401)
           ELSE IF body.platform \notin Platforms THEN Reject(400)
           ELSE IF ~fetch.ok
           THEN [st |-> st0, resp |-> IngestResponse(u, body, 500, 1, <<>>, st0)]
           ELSE LET st == IngestLoop(st0, fetch.mentions, u, body.socialAccountId,
                                     body.forceRefresh, insertOk, 1)
                IN  [st |-> st,
                     resp |-> IngestResponse(u, body, 200, 1, fetch.mentions, st)]

IngestCommit(out) ==
  /\ mentions' = out.st.mentions
  /\ analytics' = out.st.analytics
  /\ lastOp' = out.resp
  /\ UNCHANGED <<businesses, scheduledPosts, generatedPosts, apiUsage,
                 paymentHistory, now, inflight>>

\* The texts the platforms return and the lists a fetch may answer (a list
\* may hold the same mention twice).
Contents == {1, 2}
FetchedLists == UNION {[1..n -> {SocialMention(c) : c \in Contents}] : n \in 0..MaxFetched}

\* A request that reaches the platform fetch and the insert loop.
Ingest ==
  \E a \in {x \in SocialAccounts : x.is_active /\ x.token_expires_at = NullNum},
     forceRefresh \in BOOLEAN, fetched \in FetchedLists, insertOk \in BOOLEAN :
    /\ Len(mentions) + Len(fetched) <= MaxRows
    /\ IngestCommit(IngestPOST(a.user_id,
         [socialAccountId |-> a.id, platform |-> a.platform,
          forceRefresh |-> forceRefresh],
         [ok |-> TRUE, mentions |-> fetched], insertOk))

\* The platform fetch throws.
IngestFetchFails ==
  \E a \in {x \in SocialAccounts : x.is_active /\ x.token_expires_at = NullNum} :
    IngestCommit(IngestPOST(a.user_id,
      [socialAccountId |-> a.id, platform |-> a.platform, forceRefresh |-> FALSE],
      [ok |-> FALSE, mentions |-> <<>>], TRUE))

\* A request for an account that is inactive (a3), whose token has expired
\* (a4) or whose token expires at this very moment (a5), whatever the
\* platform would answer; for a5 the platform has nothing to return.
IngestUnusableAccount ==
  \E a \in {x \in SocialAccounts : ~x.is_active \/ x.token_expires_at # NullNum},
     fetch \in {[ok |-> FALSE, mentions |-> <<>>],
                [ok |-> TRUE, mentions |-> <<>>],
                [ok |-> TRUE, mentions |-> <<SocialMention(1)>>]} :
    /\ Len(mentions) + Len(fetch.mentions) <= MaxRows
    /\ a.id = "a5" => fetch.mentions = <<>>
    /\ IngestCommit(IngestPOST(a.user_id,
         [socialAccountId |-> a.id, platform |-> a.platform, forceRefresh |-> FALSE],
         fetch, TRUE))

\* Requests the handler rejects before it fetches: no user, missing fields,
\* an account that is absent, of another tenant, inactive or expired, an
\* unsupported platform.
IngestRejected ==
  \E u \in Users \cup {NoUser},
     acct \in {a.id : a \in SocialAccounts} \cup {"a9", NullStr},
     platform \in {"twitter", "myspace", NullStr} :
    /\ IngestPOST(u, [socialAccountId |-> acct, platform |-> platform,
                      forceRefresh |-> FALSE],
                  [ok |-> TRUE, mentions |-> <<>>], TRUE).resp.status # 200
    /\ IngestCommit(IngestPOST(u,
         [socialAccountId |-> acct, platform |-> platform, forceRefresh |-> FALSE],
         [ok |-> TRUE, mentions |-> <<>>], TRUE))

(***************************************************************************)
(* The ingest handler with concurrent requests.  For each fetched mention  *)
(* the handler awaits the duplicate lookup and then, in a second           *)
(* statement, the insert: other requests run in between.                   *)
(***************************************************************************)
\* An insert that the store refuses when a row of the same identity exists.
InsertMention_UnlessPresent(ments, row) ==
  IF \E i \in DOMAIN ments :
       /\ ments[i].user_id = row.user_id
       /\ ments[i].social_account_id = row.social_account_id
       /\ ments[i].content = row.content
       /\ ments[i].author = row.author
       /\ ments[i].posted_at = row.posted_at
  THEN ments
  ELSE Append(ments, row)

\* supabase.from('mentions').insert({...}): the table has no unique
\* constraint besides its primary key.
InsertMention(ments, row) == Append(ments, row)

\* The request in slot p after its current mention.
NextFetched(loc) ==
  [loc EXCEPT !.i = @ + 1,
              !.pc = IF loc.i + 1 > Len(loc.fetched) THEN "done" ELSE "lookup"]

\* An ingest request without forceRefresh for an active account arrives,
\* passes the checks and fetches from the platform.
IngestFetch(p) ==
  \E a \in {x \in SocialAccounts : x.id = "a1"}, fetched \in FetchedLists :
    /\ inflight[p] = Idle
    /\ inflight' = [inflight EXCEPT ![p] =
         [pc |-> IF fetched = <<>> THEN "done" ELSE "lookup",
          handler |-> "ingest", user |-> a.user_id, socialAccountId |-> a.id,
          forceRefresh |-> FALSE, fetched |-> fetched, i |-> 1,
          inserted |-> <<>>, skipped |-> <<>>]]
    /\ UNCHANGED <<mentions, analytics, businesses, scheduledPosts, generatedPosts,
                   apiUsage, paymentHistory, now, lastOp>>

\* The request in slot p looks its current mention up: it skips the
\* mention when the lookup returns a row, and goes on to insert otherwise.
IngestLookup(p) ==
  LET loc == inflight[p]
      m == loc.fetched[loc.i]
      existing == SingleFound(MatchingRows(mentions, loc.user, loc.socialAccountId, m))
  IN  /\ loc.pc = "lookup"
      /\ inflight' = [inflight EXCEPT ![p] =
           IF existing /\ ~loc.forceRefresh
           THEN NextFetched([loc EXCEPT !.skipped = Append(@, m)])
           ELSE [loc EXCEPT !.pc = "insert"]]
      /\ UNCHANGED <<mentions, analytics, businesses, scheduledPosts, generatedPosts,
                     apiUsage, paymentHistory, now, lastOp>>

\* The request in slot p inserts its current mention.
IngestInsert(p) ==
  \E insertOk \in BOOLEAN :
    LET loc == inflight[p]
        m == loc.fetched[loc.i]
        row == MentionRow(loc.user, loc.socialAccountId, m.content, m.author, m.postedAt)
        ments == InsertMention(mentions, row)
    IN  /\ loc.pc = "insert"
        /\ Len(mentions) < MaxRows
        /\ mentions' = IF insertOk THEN ments ELSE mentions
        /\ analytics' = IF insertOk
                        THEN update_sentiment_analytics(row, row, ments, analytics)
                        ELSE analytics
        /\ inflight' = [inflight EXCEPT ![p] =
             NextFetched(IF insertOk THEN [loc EXCEPT !.inserted = Append(@, m)] ELSE loc)]
        /\ UNCHANGED <<businesses, scheduledPosts, generatedPosts, apiUsage,
                       paymentHistory, now, lastOp>>

(***************************************************************************)
(* The scheduled-posts handlers (POST create, PATCH update, DELETE cancel) *)
(* and the external publisher.                                             *)
(***************************************************************************)
Undefined == -200000    \* a field the request does not carry
InvalidDate == -300000  \* a date string that new Date() cannot parse

\* tierLimits of the schedule handler.
scheduleTierLimits == [starter |-> 30, professional |-> 100]

\* tierLimits[tier] || 0
TierLimit(tierLimits, tier) ==
  IF tier \in DOMAIN tierLimits THEN tierLimits[tier] ELSE 0

\* The subscription check that lets a past-due subscription through.
SubscriptionAllows_PastDue(status) == status \in {"active", "trialing", "past_due"}

\* subscription_status === 'active' || subscription_status === 'trialing'
SubscriptionAllows(status) == status \in {"active", "trialing"}

\* The businesses of a user (the handlers ask for .single()).
BusinessesOf(u) == {i \in DOMAIN businesses : businesses[i].user_id = u}

\* The tenant's rows with status = scheduled.
ScheduledOf(posts, bid) ==
  {i \in DOMAIN posts : posts[i].business_id = bid /\ posts[i].status = "scheduled"}

\* The limit check with > in place of >=.
LimitReached_Above(scheduledCount, limit) == scheduledCount > limit

\* scheduledCount >= limit
LimitReached(scheduledCount, limit) == scheduledCount >= limit

\* The row a create request inserts; the create requests of the model
\* carry neither hashtags nor an image.
ScheduledPostRow(bid, acct, platform, content, scheduledTime, createdAt) ==
  [business_id |-> bid, social_account_id |-> acct, platform |-> platform,
   content |-> content, hashtags |-> "[]", image_url |-> NullStr,
   scheduled_time |-> scheduledTime, status |-> "scheduled",
   created_at |-> createdAt]

\* The response, with the request it answers; validatedAt is the clock the
\* time validation read, created the id of the row created (0 when none).
ScheduleResponse(u, body, status, error, created) ==
  [kind |-> "schedule", user |-> u, postId |-> body.postId,
   content |-> body.content, platform |-> body.platform,
   scheduledTime |-> body.scheduledTime, status |-> status, error |-> error,
   validatedAt |-> now, created |-> created]

\* POST.  body: postId (0 when absent), content (NullStr when absent),
\* platform, scheduledTime (a clock value, Undefined or InvalidDate).
\* elapsed: the time that passes between the time validation and the
\* insert (the handler awaits the store in between).  insertOk: the store
\* accepts the insert.
SchedulePOST(u, body, elapsed, insertOk) ==
  LET Reject(status, error) ==
        [posts |-> scheduledPosts, generated |-> generatedPosts, now |-> now,
         resp |-> ScheduleResponse(u, body, status, error, 0)]
  IN
  IF u = NoUser THEN Reject(401, "Unauthorized")
  ELSE IF body.content = NullStr /\ body.postId = 0
  THEN Reject(400, "Either postId or content is required")
  ELSE IF ~SingleFound(BusinessesOf(u))
  THEN Reject(404, "No business profile found")
  ELSE
  LET bid == CHOOSE i \in BusinessesOf(u) : TRUE
      business == businesses[bid]
      accounts == {a \in SocialAccounts : /\ a.business_id = bid
                                          /\ a.platform = body.platform
                                          /\ a.is_active}
      found == {i \in DOMAIN generatedPosts :
                  i = body.postId /\ generatedPosts[i].business_id = bid}
      scheduledCount == Cardinality(ScheduledOf(scheduledPosts, bid))
      limit == TierLimit(scheduleTierLimits, business.subscription_tier)
  IN
  IF ~SubscriptionAllows(business.subscription_status)
  THEN Reject(403, "Active subscription required")
  ELSE IF ~SingleFound(accounts)
  THEN Reject(400, "No active account connected")
  ELSE IF /\ body.scheduledTime \notin {Undefined, InvalidDate}
          /\ body.scheduledTime <= now
  THEN Reject(400, "Scheduled time must be in the future")
  ELSE IF body.postId # 0 /\ ~SingleFound(found)
  THEN Reject(404, "Generated post not found")
  ELSE IF LimitReached(scheduledCount, limit)
  THEN Reject(429, "Scheduling limit reached")
  ELSE IF body.scheduledTime \in {Undefined, InvalidDate}
  THEN Reject(500, "Invalid time value")            \* toISOString() throws
  ELSE IF ~insertOk
  THEN [Reject(500, "insert refused") EXCEPT !.now = now + elapsed]
  ELSE
  LET socialAccount == CHOOSE a \in accounts : TRUE
      postContent == IF body.postId # 0 THEN generatedPosts[body.postId].content
                     ELSE body.content
      row == ScheduledPostRow(bid, socialAccount.id, body.platform, postContent,
                              body.scheduledTime, now + elapsed)
      posts == Append(scheduledPosts, row)
  IN  [posts |-> posts,
       generated |-> IF body.postId # 0
                     THEN [generatedPosts EXCEPT ![body.postId] =
                             [@ EXCEPT !.status = "scheduled",
                                       !.scheduled_post_id = Len(posts)]]
                     ELSE generatedPosts,
       now |-> now + elapsed,
       resp |-> ScheduleResponse(u, body, 200, NullStr, Len(posts))]

ScheduleCommit(out) ==
  /\ scheduledPosts' = out.posts
  /\ generatedPosts' = out.generated
  /\ now' = out.now
  /\ lastOp' = out.resp
  /\ UNCHANGED <<mentions, analytics, businesses, apiUsage, paymentHistory, inflight>>

\* The lookup of the post by id alone.
ExistingPost_AnyTenant(posts, postId, bid) == {i \in DOMAIN posts : i = postId}

\* from('scheduled_posts').select('*').eq('id', postId).eq('business_id', bid)
ExistingPost(posts, postId, bid) ==
  {i \in DOMAIN posts : i = postId /\ posts[i].business_id = bid}

\* A field of the PATCH body that the request does not carry.
NoField == "undefined"

\* PATCH ?id=postId.  body: scheduledTime (a clock value, Undefined or
\* InvalidDate), content and hashtags (NullStr when absent), imageUrl
\* (NoField when absent).  storeOk: the store performs the update and
\* returns the row.
SchedulePATCH(u, postId, body, storeOk) ==
  LET Answer(status, posts) ==
        [posts |-> posts, generated |-> generatedPosts, now |-> now,
         resp |-> [kind |-> "update", user |-> u, postId |-> postId,
                   scheduledTime |-> body.scheduledTime, content |-> body.content,
                   hashtags |-> body.hashtags, imageUrl |-> body.imageUrl,
                   status |-> status]]
  IN
  IF u = NoUser THEN Answer(401, scheduledPosts)
  ELSE IF postId = 0 THEN Answer(400, scheduledPosts)
  ELSE IF ~SingleFound(BusinessesOf(u)) THEN Answer(404, scheduledPosts)
  ELSE
  LET bid == CHOOSE i \in BusinessesOf(u) : TRUE
      existing == ExistingPost(scheduledPosts, postId, bid)
  IN
  IF ~SingleFound(existing) THEN Answer(404, scheduledPosts)
  ELSE IF body.scheduledTime = InvalidDate THEN Answer(500, scheduledPosts)
  ELSE IF ~storeOk THEN Answer(500, scheduledPosts)
  ELSE Answer(200,
         [scheduledPosts EXCEPT ![postId] =
            [@ EXCEPT !.scheduled_time =
                        IF body.scheduledTime # Undefined THEN body.scheduledTime ELSE @,
                      !.content = IF body.content # NullStr THEN body.content ELSE @,
                      !.hashtags = IF body.hashtags # NullStr THEN body.hashtags ELSE @,
                      !.image_url = IF body.imageUrl # NoField THEN body.imageUrl ELSE @]])

\* The cancel without its business_id condition.
CancelRows_AnyTenant(posts, postId, bid) ==
  [i \in DOMAIN posts |->
     IF i = postId THEN [posts[i] EXCEPT !.status = "cancelled"] ELSE posts[i]]

\* update({status: 'cancelled'}).eq('id', postId).eq('business_id', bid)
CancelRows(posts, postId, bid) ==
  [i \in DOMAIN posts |->
     IF i = postId /\ posts[i].business_id = bid
     THEN [posts[i] EXCEPT !.status = "cancelled"] ELSE posts[i]]

\* DELETE ?id=postId.  cancelOk: the store performs the update.  The
\* response is kept with the status the named row had before the request
\* (NullStr when there is no such row).
ScheduleDELETE(u, postId, cancelOk) ==
  LET Answer(status, posts) ==
        [posts |-> posts, generated |-> generatedPosts, now |-> now,
         resp |-> [kind |-> "cancel", user |-> u, postId |-> postId,
                   status |-> status,
                   before |-> IF postId \in DOMAIN scheduledPosts
                              THEN scheduledPosts[postId].status ELSE NullStr]]
  IN
  IF u = NoUser THEN Answer(401, scheduledPosts)
  ELSE IF postId = 0 THEN Answer(400, scheduledPosts)
  ELSE IF ~SingleFound(BusinessesOf(u)) THEN Answer(404, scheduledPosts)
  ELSE IF ~cancelOk THEN Answer(500, scheduledPosts)
  ELSE Answer(200, CancelRows(scheduledPosts, postId,
                              CHOOSE i \in BusinessesOf(u) : TRUE))

\* Rows created by a request (the rows the model starts with were created
\* before time 0).
NewPosts == {i \in DOMAIN scheduledPosts : scheduledPosts[i].created_at >= 0}
FirstNew == Len(scheduledPosts) - Cardinality(NewPosts) + 1

\* A create request of tenant u1 that names nothing wrong but, possibly,
\* the time: for now or for the next tick.
ScheduleCreate ==
  \E postId \in {0, 1}, ahead \in {0, 1}, elapsed \in 0..MaxElapsed, insertOk \in BOOLEAN :
    /\ Cardinality(NewPosts) < MaxNewPosts
    /\ now + elapsed <= MaxNow
    /\ ScheduleCommit(SchedulePOST("u1",
         [postId |-> postId, content |-> IF postId = 0 THEN "text" ELSE NullStr,
          platform |-> "twitter", scheduledTime |-> now + ahead],
         elapsed, insertOk))

\* Create requests the handler refuses: no user; neither content nor
\* postId; a platform without active account; a time in the past, missing
\* or unparseable; a generated post of another tenant or that does not
\* exist; and a request with nothing wrong when the subscription or the
\* limit does not allow it.
ScheduleCreateRejected ==
  \E r \in { <<NoUser, 0, "text", "twitter", now + 1>>,
             <<"u1", 0, NullStr, "twitter", now + 1>>,
             <<"u1", 0, "text", "facebook", now + 1>>,
             <<"u1", 0, "text", "twitter", now - 1>>,
             <<"u1", 0, "text", "twitter", Undefined>>,
             <<"u1", 0, "text", "twitter", InvalidDate>>,
             <<"u1", 2, NullStr, "twitter", now + 1>>,
             <<"u1", 3, NullStr, "twitter", now + 1>>,
             <<"u1", 0, "text", "twitter", now + 1>> } :
    LET out == SchedulePOST(r[1], [postId |-> r[2], content |-> r[3],
                                   platform |-> r[4], scheduledTime |-> r[5]], 0, TRUE)
    IN  out.resp.status # 200 /\ ScheduleCommit(out)

\* An update by tenant u1 of a row of another tenant (1), of an own row
\* (2) or of a row that does not exist: new content, hashtags and image
\* and a time that is not in the future, nothing at all, or an unparseable
\* time.  The store
\* refusing the update is considered for the update of the own row only;
\* the other requests end before the update statement or fail alike.
ScheduleUpdate ==
  \E postId \in {1, 2, Len(scheduledPosts) + 1},
     body \in { [scheduledTime |-> 0, content |-> "edited", hashtags |-> "[#new]",
                 imageUrl |-> "image"],
                [scheduledTime |-> Undefined, content |-> NullStr, hashtags |-> NullStr,
                 imageUrl |-> NoField],
                [scheduledTime |-> InvalidDate, content |-> NullStr, hashtags |-> NullStr,
                 imageUrl |-> NoField] },
     storeOk \in BOOLEAN :
    /\ storeOk \/ (postId = 2 /\ body.scheduledTime = 0)
    /\ ScheduleCommit(SchedulePATCH("u1", postId, body, storeOk))

\* A cancel by tenant u1 of a row of another tenant (1), of own rows (2,
\* the first row created) or without id, and a cancel by nobody.
ScheduleCancel ==
  \E r \in ({"u1"} \X {0, 1, 2, FirstNew} \X {TRUE})
             \cup {<<"u1", 2, FALSE>>, <<NoUser, 2, TRUE>>} :
    ScheduleCommit(ScheduleDELETE(r[1], r[2], r[3]))

\* The external publisher publishes a scheduled post, or fails to.
ExternalPublish ==
  \E i \in {2, FirstNew} \cap DOMAIN scheduledPosts, status \in {"published", "failed"} :
    /\ scheduledPosts[i].status = "scheduled"
    /\ scheduledPosts' = [scheduledPosts EXCEPT ![i].status = status]
    /\ lastOp' = NoRequest
    /\ UNCHANGED <<mentions, analytics, businesses, generatedPosts, apiUsage,
                   paymentHistory, now, inflight>>

\* The external publisher publishes the scheduled post of a generated post
\* and marks the generated post published.
ExternalPublishGenerated ==
  \E g \in DOMAIN generatedPosts :
    LET i == generatedPosts[g].scheduled_post_id IN
    /\ generatedPosts[g].status = "scheduled"
    /\ i \in DOMAIN scheduledPosts
    /\ scheduledPosts[i].status = "scheduled"
    /\ scheduledPosts' = [scheduledPosts EXCEPT ![i].status = "published"]
    /\ generatedPosts' = [generatedPosts EXCEPT ![g].status = "published"]
    /\ lastOp' = NoRequest
    /\ UNCHANGED <<mentions, analytics, businesses, apiUsage, paymentHistory,
                   now, inflight>>

(***************************************************************************)
(* The create handler with concurrent requests.  The handler reads the     *)
(* tenant's scheduled count, compares it with the limit and, after         *)
(* returning from that await, inserts the row: other requests run between  *)
(* the two statements.  The clock stands still meanwhile.                  *)
(***************************************************************************)
\* An insert that the store performs only while the tenant is below limit.
InsertScheduledPost_IfBelowLimit(posts, row, limit) ==
  IF Cardinality(ScheduledOf(posts, row.business_id)) >= limit THEN posts
  ELSE Append(posts, row)

\* supabase.from('scheduled_posts').insert({...})
InsertScheduledPost(posts, row, limit) == Append(posts, row)

\* A create request of tenant u1 arrives and runs up to the limit check:
\* it is refused, or goes on to the insert knowing the count it read.
ScheduleCheck(p) ==
  \E postId \in {0, 1}, ahead \in {0, 1} :
    LET body == [postId |-> postId, content |-> IF postId = 0 THEN "text" ELSE NullStr,
                 platform |-> "twitter", scheduledTime |-> now + ahead]
        out == SchedulePOST("u1", body, 0, TRUE)
        bid == CHOOSE i \in BusinessesOf("u1") : TRUE
    IN  /\ inflight[p] = Idle
        /\ inflight' = [inflight EXCEPT ![p] =
             [pc |-> IF out.resp.status = 200 THEN "insert" ELSE "done",
              handler |-> "schedule", user |-> "u1", body |-> body,
              scheduledCount |-> Cardinality(ScheduledOf(scheduledPosts, bid)),
              limit |-> TierLimit(scheduleTierLimits, businesses[bid].subscription_tier),
              status |-> IF out.resp.status = 200 THEN 0 ELSE out.resp.status]]
        /\ UNCHANGED <<mentions, analytics, businesses, scheduledPosts, generatedPosts,
                       apiUsage, paymentHistory, now, lastOp>>

\* The request in slot p inserts its row and, when it schedules a
\* generated post, marks that post; a refused insert is answered 500.
ScheduleInsert(p) ==
  \E insertOk \in BOOLEAN :
    LET loc == inflight[p]
        bid == CHOOSE i \in BusinessesOf(loc.user) : TRUE
        socialAccount == CHOOSE a \in SocialAccounts :
                           /\ a.business_id = bid /\ a.platform = loc.body.platform
                           /\ a.is_active
        postContent == IF loc.body.postId # 0 THEN generatedPosts[loc.body.postId].content
                       ELSE loc.body.content
        row == ScheduledPostRow(bid, socialAccount.id, loc.body.platform, postContent,
                                loc.body.scheduledTime, now)
        posts == InsertScheduledPost(scheduledPosts, row, loc.limit)
    IN  /\ loc.pc = "insert"
        /\ scheduledPosts' = IF insertOk THEN posts ELSE scheduledPosts
        /\ generatedPosts' =
             IF insertOk /\ loc.body.postId # 0
             THEN [generatedPosts EXCEPT ![loc.body.postId] =
                     [@ EXCEPT !.status = "scheduled", !.scheduled_post_id = Len(posts)]]
             ELSE generatedPosts
        /\ inflight' = [inflight EXCEPT ![p] =
             [loc EXCEPT !.pc = "done", !.status = IF insertOk THEN 200 ELSE 500]]
        /\ UNCHANGED <<mentions, analytics, businesses, apiUsage, paymentHistory,
                       now, lastOp>>

(***************************************************************************)
(* The billing webhook (POST): maps payment-provider events to the         *)
(* tenant's subscription tier and status.                                  *)
(***************************************************************************)
\* An update of the businesses of a customer.
UpdateCustomer(bus, customer, status, tier) ==
  [i \in DOMAIN bus |->
     IF bus[i].stripe_customer_id = customer
     THEN [bus[i] EXCEPT !.subscription_status = IF status # NullStr THEN status ELSE @,
                         !.subscription_tier = tier]
     ELSE bus[i]]

\* The verification left out: every signature is taken for good.
ConstructEventFails_Never(signature) == FALSE

\* stripe.webhooks.constructEvent(rawBody, signature, webhookSecret) throws.
ConstructEventFails(signature) == signature # "good"

\* The handler.  signature: "none" (no header), "bad" (verification
\* fails) or "good".  event: type, customer, userId (checkout metadata,
\* NullStr when absent), price ("professional" for the professional price,
\* anything else counts as starter), status (of the subscription).
\* retrieveOk: the provider answers the subscription lookup.  storeOk: the
\* store performs the write (a failed write is logged and ignored).  The
\* body of a POST request is always a stream, so getRawBody() returns.
\* The response is kept with the customer of the event and with applied,
\* whether the store performed the write.
StripeWebhookPOST(signature, event, retrieveOk, storeOk) ==
  LET Answer(status, bus, pay) ==
        [businesses |-> bus, payments |-> pay,
         resp |-> [kind |-> "webhook", signature |-> signature,
                   type |-> event.type, customer |-> event.customer,
                   applied |-> storeOk, status |-> status]]
      tier == IF event.price = "professional" THEN "professional" ELSE "starter"
  IN
  IF signature = "none" THEN Answer(400, businesses, paymentHistory)
  ELSE IF ConstructEventFails(signature) THEN Answer(400, businesses, paymentHistory)
  ELSE IF event.type = "checkout.session.completed"
  THEN IF event.userId = NullStr THEN Answer(200, businesses, paymentHistory)
       ELSE IF ~retrieveOk THEN Answer(500, businesses, paymentHistory)
       ELSE IF ~storeOk THEN Answer(200, businesses, paymentHistory)
       ELSE Answer(200,
                   Append(businesses,
                          [user_id |-> event.userId, stripe_customer_id |-> event.customer,
                           subscription_status |-> event.status,
                           subscription_tier |-> tier]),
                   paymentHistory)
  ELSE IF event.type = "customer.subscription.updated"
  THEN Answer(200,
              IF storeOk THEN UpdateCustomer(businesses, event.customer, event.status, tier)
              ELSE businesses,
              paymentHistory)
  ELSE IF event.type = "customer.subscription.deleted"
  THEN Answer(200,
              IF storeOk THEN UpdateCustomer(businesses, event.customer, "canceled", NullStr)
              ELSE businesses,
              paymentHistory)
  ELSE IF event.type = "invoice.payment_succeeded"
  THEN Answer(200, businesses,
              IF storeOk
              THEN Append(paymentHistory,
                          [stripe_customer_id |-> event.customer, status |-> "succeeded"])
              ELSE paymentHistory)
  ELSE IF event.type = "invoice.payment_failed"
  THEN Answer(200,
              IF storeOk
              THEN [i \in DOMAIN businesses |->
                      IF businesses[i].stripe_customer_id = event.customer
                      THEN [businesses[i] EXCEPT !.subscription_status = "past_due"]
                      ELSE businesses[i]]
              ELSE businesses,
              IF storeOk
              THEN Append(paymentHistory,
                          [stripe_customer_id |-> event.customer, status |-> "failed"])
              ELSE paymentHistory)
  ELSE Answer(200, businesses, paymentHistory)

WebhookCommit(out) ==
  /\ businesses' = out.businesses
  /\ paymentHistory' = out.payments
  /\ lastOp' = out.resp
  /\ UNCHANGED <<mentions, analytics, scheduledPosts, generatedPosts, apiUsage, now, inflight>>

StripeEvent(type, customer, userId, price, status) ==
  [type |-> type, customer |-> customer, userId |-> userId, price |-> price,
   status |-> status]

\* A delivery without signature or with a wrong one, or of an event type
\* the handler does not know.
WebhookIgnored ==
  \E signature \in {"none", "bad", "good"} :
    WebhookCommit(StripeWebhookPOST(signature,
      StripeEvent(IF signature = "good" THEN "customer.created"
                  ELSE "customer.subscription.deleted",
                  "cus_1", NullStr, "starter", "active"), TRUE, TRUE))

\* A checkout by a user without business so far, or without user.
CheckoutCompleted ==
  \E userId \in {"u3", NullStr}, price \in {"starter", "professional"},
     retrieveOk \in BOOLEAN, storeOk \in BOOLEAN :
    /\ Len(businesses) < MaxBusinesses
    /\ WebhookCommit(StripeWebhookPOST("good",
         StripeEvent("checkout.session.completed", "cus_3", userId, price, "active"),
         retrieveOk, storeOk))

\* The subscription of tenant u1, or of an unknown customer, changes
\* price or status, or ends.
SubscriptionChanged ==
  \E customer \in {"cus_1", "cus_9"}, price \in {"starter", "professional"},
     status \in {"active", "past_due"},
     type \in {"customer.subscription.updated", "customer.subscription.deleted"},
     storeOk \in BOOLEAN :
    WebhookCommit(StripeWebhookPOST("good",
      StripeEvent(type, customer, NullStr, price, status), TRUE, storeOk))

\* An invoice of tenant u1 is paid, or its payment fails.
InvoiceEvent ==
  \E type \in {"invoice.payment_succeeded", "invoice.payment_failed"},
     storeOk \in BOOLEAN :
    /\ Len(paymentHistory) < MaxPayments
    /\ WebhookCommit(StripeWebhookPOST("good",
         StripeEvent(type, "cus_1", NullStr, "starter", "active"), TRUE, storeOk))

(***************************************************************************)
(* The generate handler (POST): asks the LLM for posts, stores them as     *)
(* drafts and records the usage of the month.                              *)
(***************************************************************************)
\* tierLimits of the generate handler.
generateTierLimits == [starter |-> 50, professional |-> 200]

DefaultPostCount == 7

\* new Date(new Date().setDate(1)): the first day of the current month at
\* the current time of day.
TicksPerMonth == TicksPerDay * DaysPerMonth
UsageCutoff(t) == (t \div TicksPerMonth) * TicksPerMonth + (t % TicksPerDay)

\* api_usage rows of the business created at or after the cutoff; the
\* handler asks for .single() and takes 0 when it gets no row.
UsageRows(usage, bid, t) ==
  {i \in DOMAIN usage : usage[i].business_id = bid /\ usage[i].created_at >= UsageCutoff(t)}

CurrentUsage(usage, bid, t) ==
  IF SingleFound(UsageRows(usage, bid, t))
  THEN usage[CHOOSE i \in UsageRows(usage, bid, t) : TRUE].posts_generated
  ELSE 0

\* currentUsage + postCount > limit
QuotaExceeded(currentUsage, postCount, limit) == currentUsage + postCount > limit

GeneratedPostRow(bid, content) ==
  [business_id |-> bid, content |-> content, status |-> "draft", scheduled_post_id |-> 0]

\* The response, with the request it answers; llmCalls counts the calls of
\* the LLM the handler made, reply is what the call yielded (NullStr
\* without a call), returned the posts the LLM returned.
GenerateResponse(u, body, status, usage, limit, llmCalls, reply, returned) ==
  [kind |-> "generate", user |-> u, postCount |-> body.postCount, status |-> status,
   usage |-> usage, limit |-> limit, llmCalls |-> llmCalls, reply |-> reply,
   returned |-> returned]

\* What the LLM call yields: "error" (the call throws), "not_json",
\* "no_posts" (JSON without a posts array) or "posts", JSON with that many
\* posts.
LlmReplies ==
  {[kind |-> k, posts |-> 0] : k \in {"error", "not_json", "no_posts"}}
    \cup {[kind |-> "posts", posts |-> n] : n \in 1..MaxReturned}

\* The call and the parse with a missing posts array read as no posts.
ParseFails_MissingPostsAccepted(reply) == reply.kind \in {"error", "not_json"}

\* anthropic.messages.create throws, JSON.parse throws, or response.posts
\* has no map method.
ParseFails(reply) == reply.kind # "posts"

\* The handler.  body: postCount (Undefined when absent).  reply: what the
\* LLM call yields.
\* saveOk, usageOk: the store performs the insert of the drafts and the
\* upsert of the usage (the handler ignores both failures).
GeneratePOST(u, body, reply, saveOk, usageOk) ==
  LET postCount == IF body.postCount = Undefined THEN DefaultPostCount ELSE body.postCount
      Answer(status, usage, limit, llmCalls, returned, gen, use) ==
        [generated |-> gen, usage |-> use,
         resp |-> GenerateResponse(u, body, status, usage, limit, llmCalls,
                                   IF llmCalls = 1 THEN reply.kind ELSE NullStr,
                                   returned)]
      Reject(status) == Answer(status, NullNum, NullNum, 0, 0, generatedPosts, apiUsage)
  IN
  IF u = NoUser THEN Reject(401)
  ELSE IF ~SingleFound(BusinessesOf(u)) THEN Reject(404)
  ELSE
  LET bid == CHOOSE i \in BusinessesOf(u) : TRUE
      business == businesses[bid]
      currentUsage == CurrentUsage(apiUsage, bid, now)
      limit == TierLimit(generateTierLimits, business.subscription_tier)
  IN
  IF ~SubscriptionAllows(business.subscription_status) THEN Reject(403)
  ELSE IF QuotaExceeded(currentUsage, postCount, limit)
  THEN Answer(429, currentUsage, limit, 0, 0, generatedPosts, apiUsage)
  ELSE IF ParseFails(reply)
  THEN Answer(500, currentUsage, limit, 1, 0, generatedPosts, apiUsage)
  ELSE Answer(200, currentUsage, limit, 1, reply.posts,
              IF saveOk
              THEN generatedPosts \o [i \in 1..reply.posts |-> GeneratedPostRow(bid, "generated")]
              ELSE generatedPosts,
              IF usageOk
              THEN Append(apiUsage, [business_id |-> bid,
                                     posts_generated |-> currentUsage + postCount,
                                     created_at |-> now])
              ELSE apiUsage)

GenerateCommit(out) ==
  /\ generatedPosts' = out.generated
  /\ apiUsage' = out.usage
  /\ lastOp' = out.resp
  /\ UNCHANGED <<mentions, analytics, businesses, scheduledPosts, paymentHistory, now, inflight>>

\* A request of tenant u1 for the default number of posts, one fewer or one
\* more; the LLM fails, or returns fewer posts than asked for.
Generate ==
  \E postCount \in {Undefined, DefaultPostCount - 1, DefaultPostCount + 1},
     reply \in LlmReplies,
     stored \in {<<TRUE, TRUE>>, <<FALSE, TRUE>>, <<TRUE, FALSE>>} :
    /\ Len(apiUsage) < MaxUsageRows
    /\ Len(generatedPosts) < MaxDrafts
    /\ stored = <<TRUE, TRUE>> \/ reply.posts = 1
    /\ GenerateCommit(GeneratePOST("u1", [postCount |-> postCount], reply,
                                   stored[1], stored[2]))

\* Requests of nobody, of a user without business and of a tenant whose
\* subscription is past due.
GenerateRejected ==
  \E u \in {NoUser, "u3", "u2"} :
    GenerateCommit(GeneratePOST(u, [postCount |-> Undefined],
                                [kind |-> "posts", posts |-> 1], TRUE, TRUE))

\* Time passes.
Tick ==
  /\ now < MaxNow
  /\ now' = now + 1
  /\ lastOp' = NoRequest
  /\ UNCHANGED <<mentions, analytics, businesses, scheduledPosts, generatedPosts,
                 apiUsage, paymentHistory, inflight>>

(***************************************************************************)
(* The generate handler with concurrent requests.  The handler awaits the  *)
(* usage read, then the LLM, then the store for the drafts and the usage:  *)
(* other requests run at each await.  The store performs every write.      *)
(***************************************************************************)
\* A usage write that adds postCount to what the table holds at the time
\* of the write.
UsageToWrite_Increment(currentUsage, postCount, usage, bid) ==
  LET rows == {i \in DOMAIN usage : usage[i].business_id = bid} IN
  (IF rows = {} THEN 0
   ELSE usage[CHOOSE i \in rows : \A j \in rows : j <= i].posts_generated) + postCount

\* posts_generated: currentUsage + postCount
UsageToWrite(currentUsage, postCount, usage, bid) == currentUsage + postCount

GenerateLocal(p, loc) ==
  /\ inflight' = [inflight EXCEPT ![p] = loc]
  /\ UNCHANGED <<mentions, analytics, businesses, scheduledPosts, generatedPosts,
                 apiUsage, paymentHistory, now, lastOp>>

\* A generate request of tenant u1 arrives, reads the usage and is checked
\* against the quota.
GenerateCheck(p) ==
  \E postCount \in {Undefined, DefaultPostCount - 1, DefaultPostCount + 1} :
    LET out == GeneratePOST("u1", [postCount |-> postCount],
                            [kind |-> "posts", posts |-> 1], TRUE, TRUE).resp
    IN  /\ inflight[p] = Idle
        /\ GenerateLocal(p, [pc |-> IF out.status = 200 THEN "llm" ELSE "done",
                              handler |-> "generate", user |-> "u1",
                              postCount |-> postCount, usage |-> out.usage,
                              limit |-> out.limit,
                              status |-> IF out.status = 200 THEN 0 ELSE out.status,
                              llmCalls |-> 0, returned |-> 0])

\* The request in slot p calls the LLM and parses its answer.
GenerateCallLlm(p) ==
  \E reply \in {[kind |-> "error", posts |-> 0], [kind |-> "posts", posts |-> 1]} :
    LET loc == inflight[p] IN
    /\ loc.pc = "llm"
    /\ GenerateLocal(p, [loc EXCEPT !.llmCalls = 1,
                                     !.returned = reply.posts,
                                     !.pc = IF reply.kind = "posts" THEN "save" ELSE "done",
                                     !.status = IF reply.kind = "posts" THEN 0 ELSE 500])

\* The request in slot p stores its drafts and writes the usage.
GenerateSave(p) ==
  LET loc == inflight[p]
      bid == CHOOSE i \in BusinessesOf(loc.user) : TRUE
      postCount == IF loc.postCount = Undefined THEN DefaultPostCount ELSE loc.postCount
  IN  /\ loc.pc = "save"
      /\ Len(apiUsage) < MaxUsageRows
      /\ generatedPosts' =
           generatedPosts \o [i \in 1..loc.returned |-> GeneratedPostRow(bid, "generated")]
      /\ apiUsage' = Append(apiUsage,
           [business_id |-> bid,
            posts_generated |-> UsageToWrite(loc.usage, postCount, apiUsage, bid),
            created_at |-> now])
      /\ inflight' = [inflight EXCEPT ![p] = [loc EXCEPT !.pc = "done", !.status = 200]]
      /\ UNCHANGED <<mentions, analytics, businesses, scheduledPosts, paymentHistory,
                     now, lastOp>>

(***************************************************************************)
(* Initial tables.                                                         *)
(***************************************************************************)
\* The mentions the analyze model starts from, as earlier ingests left them:
\* unanalyzed rows of two tenants over two days.
InitialMentions ==
  [i \in 1..NumMentions |->
     MentionRow(IF i % 3 = 0 THEN "u2" ELSE "u1",
                IF i % 3 = 0 THEN "a2" ELSE "a1",
                i, "author",
                IF i > 3 THEN TicksPerDay ELSE 0)]

InitRest ==
  /\ analytics = {}
  /\ businesses = <<>>
  /\ scheduledPosts = <<>>
  /\ generatedPosts = <<>>
  /\ apiUsage = <<>>
  /\ paymentHistory = <<>>
  /\ now = 0
  /\ lastOp = NoRequest
  /\ inflight = NoRequests

InitAnalyze == mentions = InitialMentions /\ InitRest

NextAnalyze == AnalyzeByIds \/ AnalyzeContent \/ AnalyzeBatch \/ AnalyzeUnauthorized

SpecAnalyze == InitAnalyze /\ [][NextAnalyze]_vars

NextAnalyzeConcurrent ==
  \E p \in Slots :
    \/ AnalyzeStartByIds(p)
    \/ AnalyzeStartBatch(p)
    \/ AnalyzeFetchMention(p)
    \/ AnalyzeClassifyMention(p)

SpecAnalyzeConcurrent == InitAnalyze /\ [][NextAnalyzeConcurrent]_vars

\* Every tenant keeps sending batch requests, the classifier and the store
\* never fail and nothing is ingested.
NextAnalyzeRepeated == (\E u \in Users : AnalyzeBatchOk(u)) \/ AnalyzeByIdsOk

SpecAnalyzeRepeated ==
  /\ InitAnalyze
  /\ [][NextAnalyzeRepeated]_vars
  /\ \A u \in Users : WF_vars(AnalyzeBatchOk(u))

\* The texts the classifier fails on at every attempt; it answers every
\* other text properly.
FailingTexts == {1}

\* A batch request of tenant u that meets that classifier.
AnalyzeBatchFailing(u) ==
  \E b \in BatchSizes, f \in Failures :
    \E off \in 0..Max(0, Len(UnanalyzedIds(mentions, u)) - 1) :
      \E sel \in {SelectUnanalyzed(mentions, u, IF b # 0 THEN b ELSE DefaultBatchSize, off)} :
        \E replies \in {[i \in 1..Len(sel) |->
                           ClassifierReply(mentions[sel[i]].content,
                                           IF mentions[sel[i]].content \in FailingTexts
                                           THEN f ELSE "ok")]} :
          AnalyzeCommit(AnalyzePOST(u, [mentionIds |-> <<>>, content |-> NullStr,
                                        batchSize |-> b], replies, off))

\* A by-IDs request that meets the same classifier.
AnalyzeByIdsFailing ==
  \E u \in Users, ids \in IdLists :
    \E replies \in {[i \in 1..Len(ids) |->
                       IF ids[i] \in DOMAIN mentions
                       THEN ClassifierReply(mentions[ids[i]].content,
                                            IF mentions[ids[i]].content \in FailingTexts
                                            THEN "http_error" ELSE "ok")
                       ELSE ClassifierReply(0, "http_error")]} :
      AnalyzeCommit(AnalyzePOST(u, [mentionIds |-> ids, content |-> NullStr,
                                    batchSize |-> 0], replies, 0))

\* Every tenant keeps sending batch requests; by-IDs requests may come in
\* between.
NextAnalyzeFailing == (\E u \in Users : AnalyzeBatchFailing(u)) \/ AnalyzeByIdsFailing

SpecAnalyzeFailing ==
  /\ InitAnalyze
  /\ [][NextAnalyzeFailing]_vars
  /\ \A u \in Users : WF_vars(AnalyzeBatchFailing(u))

InitIngest == mentions = <<>> /\ InitRest

NextIngest == Ingest \/ IngestFetchFails \/ IngestUnusableAccount \/ IngestRejected

SpecIngest == InitIngest /\ [][NextIngest]_vars

NextIngestConcurrent ==
  \E p \in Slots : IngestFetch(p) \/ IngestLookup(p) \/ IngestInsert(p)

SpecIngestConcurrent == InitIngest /\ [][NextIngestConcurrent]_vars

BusinessRow(u, customer, status, tier) ==
  [user_id |-> u, stripe_customer_id |-> customer, subscription_status |-> status,
   subscription_tier |-> tier]

\* Two tenants with an active subscription; u1 subscribes to tier.
InitialBusinesses(tier) ==
  << BusinessRow("u1", "cus_1", "active", tier),
     BusinessRow("u2", "cus_2", "active", "starter") >>

\* One scheduled post of tenant u2 followed by n scheduled posts of tenant
\* u1, all created before time 0 and due at time 1.
InitialScheduledPosts(n) ==
  [i \in 1..(n + 1) |->
     IF i = 1 THEN ScheduledPostRow(2, "a2", "twitter", "text", 1, -1)
     ELSE ScheduledPostRow(1, "a1", "twitter", "text", 1, -1)]

\* A draft of each tenant.
InitialGeneratedPosts == << GeneratedPostRow(1, "draft1"), GeneratedPostRow(2, "draft2") >>

\* Tenant u1 is at the limit of its tier or one post below it.
InitSchedule ==
  /\ \E tier \in DOMAIN scheduleTierLimits, room \in {0, 1} :
       /\ businesses = InitialBusinesses(tier)
       /\ scheduledPosts = InitialScheduledPosts(scheduleTierLimits[tier] - room)
  /\ generatedPosts = InitialGeneratedPosts
  /\ mentions = <<>>
  /\ analytics = {}
  /\ apiUsage = <<>>
  /\ paymentHistory = <<>>
  /\ now = 0
  /\ lastOp = NoRequest
  /\ inflight = NoRequests

NextSchedule ==
  \/ ScheduleCreate
  \/ ScheduleCreateRejected
  \/ ScheduleUpdate
  \/ ScheduleCancel
  \/ ExternalPublish

SpecSchedule == InitSchedule /\ [][NextSchedule]_vars

\* The generated posts over their life: tenant u1 asks for one more draft,
\* schedules, updates and cancels, and the publisher publishes.  The draft
\* of tenant u1 is still a draft, or was scheduled earlier as post 2.
GenerateDraft ==
  /\ Len(generatedPosts) < MaxDrafts + 1
  /\ GenerateCommit(GeneratePOST("u1", [postCount |-> Undefined],
                                 [kind |-> "posts", posts |-> 1], TRUE, TRUE))

InitGeneratedPosts ==
  /\ \E tier \in DOMAIN scheduleTierLimits, room \in {0, 1}, scheduled \in BOOLEAN :
       /\ businesses = InitialBusinesses(tier)
       /\ scheduledPosts = InitialScheduledPosts(scheduleTierLimits[tier] - room)
       /\ generatedPosts =
            IF scheduled
            THEN [InitialGeneratedPosts EXCEPT
                    ![1] = [@ EXCEPT !.status = "scheduled", !.scheduled_post_id = 2]]
            ELSE InitialGeneratedPosts
  /\ mentions = <<>>
  /\ analytics = {}
  /\ apiUsage = <<>>
  /\ paymentHistory = <<>>
  /\ now = 0
  /\ lastOp = NoRequest
  /\ inflight = NoRequests

NextGeneratedPosts ==
  \/ GenerateDraft
  \/ ScheduleCreate
  \/ ScheduleUpdate
  \/ ScheduleCancel
  \/ ExternalPublish
  \/ ExternalPublishGenerated

SpecGeneratedPosts == InitGeneratedPosts /\ [][NextGeneratedPosts]_vars

NextScheduleConcurrent == \E p \in Slots : ScheduleCheck(p) \/ ScheduleInsert(p)

SpecScheduleConcurrent == InitSchedule /\ [][NextScheduleConcurrent]_vars

\* The schedule requests of a tenant whose subscription changes meanwhile.
NextBilling ==
  \/ SubscriptionChanged
  \/ ScheduleCreate
  \/ ScheduleUpdate
  \/ ScheduleCancel

SpecBilling == InitSchedule /\ [][NextBilling]_vars

\* The requests of tenant u1 that need a subscription, while billing
\* events change or end the subscription of the tenant.
NextSubscription ==
  \/ SubscriptionChanged
  \/ InvoiceEvent
  \/ ScheduleCreate
  \/ GenerateDraft

SpecSubscription == InitSchedule /\ [][NextSubscription]_vars

\* Tenant u1 has used all but DefaultPostCount posts of the month's quota
\* of its tier; the subscription of tenant u2 is past due.
InitGenerate ==
  /\ \E tier \in DOMAIN generateTierLimits :
       /\ businesses = << BusinessRow("u1", "cus_1", "active", tier),
                          BusinessRow("u2", "cus_2", "past_due", "starter") >>
       /\ apiUsage = << [business_id |-> 1,
                         posts_generated |-> generateTierLimits[tier] - DefaultPostCount,
                         created_at |-> 0] >>
  /\ generatedPosts = <<>>
  /\ scheduledPosts = <<>>
  /\ mentions = <<>>
  /\ analytics = {}
  /\ paymentHistory = <<>>
  /\ now = 0
  /\ lastOp = NoRequest
  /\ inflight = NoRequests

NextGenerate == Generate \/ GenerateRejected \/ Tick

SpecGenerate == InitGenerate /\ [][NextGenerate]_vars

NextGenerateConcurrent ==
  \E p \in Slots : GenerateCheck(p) \/ GenerateCallLlm(p) \/ GenerateSave(p)

SpecGenerateConcurrent == InitGenerate /\ [][NextGenerateConcurrent]_vars

\* The webhook alone.
NextWebhook ==
  \/ WebhookIgnored
  \/ CheckoutCompleted
  \/ SubscriptionChanged
  \/ InvoiceEvent

SpecWebhook == InitSchedule /\ [][NextWebhook]_vars

(***************************************************************************)
(* Properties of the analyze handler and of the analytics trigger          *)
(* (checked under SpecAnalyze).                                            *)
(***************************************************************************)
Abs(x) == IF x < 0 THEN -x ELSE x

AnalyticsRows(u, d) == {r \in analytics : r.user_id = u /\ r.date = d}
ScoredMentions(u, d) ==
  {i \in DOMAIN mentions : /\ mentions[i].user_id = u
                           /\ mentions[i].posted_at \div TicksPerDay = d
                           /\ mentions[i].sentiment_score # NullNum}
ScoreSum(S) == SumOver([i \in S |-> mentions[i].sentiment_score], S)
KnownDates == {mentions[i].posted_at \div TicksPerDay : i \in DOMAIN mentions}
                \cup {r.date : r \in analytics}
CountsMatch(r, S) ==
  /\ r.total_mentions = r.positive_count + r.negative_count + r.neutral_count
  /\ r.total_mentions = Cardinality(S)
  /\ \A l \in Labels :
       (CASE l = "positive" -> r.positive_count
          [] l = "negative" -> r.negative_count
          [] l = "neutral"  -> r.neutral_count)
       = Cardinality({i \in S : mentions[i].sentiment_label = l})

StoredSentiment(m) ==
  [score |-> 10 * m.sentiment_score, label |-> m.sentiment_label,
   reasoning |-> m.sentiment_reasoning]

\* C3: an analyze request leaves the score, label and reasoning of every
\* mention that already has a score unchanged; a by-IDs request of the
\* mention's tenant gets it back as a successful cached result carrying the
\* stored values, with no classifier call and no store write for it.
C3_ScoredIsImmutable ==
  [][\A i \in DOMAIN mentions :
       Scored(mentions[i]) =>
         /\ mentions'[i].sentiment_score = mentions[i].sentiment_score
         /\ mentions'[i].sentiment_label = mentions[i].sentiment_label
         /\ mentions'[i].sentiment_reasoning = mentions[i].sentiment_reasoning
         /\ (lastOp'.kind = "analyze" /\ lastOp'.mode = "ids"
               /\ lastOp'.user = mentions[i].user_id) =>
              \A k \in DOMAIN lastOp'.results :
                lastOp'.results[k].mentionId = i =>
                  /\ lastOp'.results[k].success
                  /\ lastOp'.results[k].cached
                  /\ lastOp'.results[k].sentiment = StoredSentiment(mentions[i])
                  /\ lastOp'.results[k].calls = 0
                  /\ lastOp'.results[k].writes = 0]_vars

\* A by-IDs response holding a cached result.
C3_Witness ==
  /\ lastOp.kind = "analyze" /\ lastOp.mode = "ids"
  /\ \E k \in DOMAIN lastOp.results :
       /\ lastOp.results[k].cached
       /\ Scored(mentions[lastOp.results[k].mentionId])

\* Whether the classifier's reply is accepted and fits the score column.
ReplyUsable(reply) ==
  /\ reply.http
  /\ reply.label \in {"positive", "negative", "neutral"}
  /\ reply.score < 9995 /\ reply.score > -9995

\* C9: a by-IDs or batch response holds exactly one result per requested or
\* selected mention, in processing order; an item fails exactly when it was
\* not found or its own classifier call or store update failed, whatever
\* happened to the items before it; a failure carries an error string, a
\* success a sentiment; analyzed + cached + failed is the number of results,
\* with cached 0 in batch mode.
C9_FailureIsolation ==
  (lastOp.kind = "analyze" /\ lastOp.mode \in {"ids", "batch"}) =>
    /\ Len(lastOp.results) = Len(lastOp.ids)
    /\ \A k \in DOMAIN lastOp.results :
         LET r == lastOp.results[k] IN
         /\ r.mentionId = lastOp.ids[k]
         /\ r.success => r.error = NullStr /\ r.sentiment.score # NullNum
         /\ ~r.success => r.error # NullStr /\ r.sentiment = NoSentiment
         /\ r.calls = 1 => (r.success <=> ReplyUsable(lastOp.replies[k]))
         /\ lastOp.mode = "batch" => r.calls = 1
    /\ lastOp.analyzed + lastOp.cached + lastOp.failed = Len(lastOp.results)
    /\ lastOp.mode = "batch" => lastOp.cached = 0

\* A response in which an item fails in the classifier or in the store and a
\* later item is analyzed.
C9_Witness ==
  /\ lastOp.kind = "analyze" /\ lastOp.mode \in {"ids", "batch"}
  /\ \E k, j \in DOMAIN lastOp.results :
       /\ k < j
       /\ ~lastOp.results[k].success /\ lastOp.results[k].calls = 1
       /\ lastOp.results[j].success /\ ~lastOp.results[j].cached

\* C10: a batch response for a tenant with n >= 1 unanalyzed mentions and
\* batch size b (10 when the request names none) holds exactly min(b, n)
\* results, each for a different mention of the tenant that was unanalyzed
\* when the request started, each a success with a sentiment or a failure
\* with an error string.
C10_BatchReturnsMin ==
  (lastOp.kind = "analyze" /\ lastOp.mode = "batch" /\ lastOp.unanalyzed # {}) =>
    LET b == IF lastOp.batchSize = 0 THEN 10 ELSE lastOp.batchSize
        n == Cardinality(lastOp.unanalyzed)
    IN  /\ Len(lastOp.results) = (IF b < n THEN b ELSE n)
        /\ \A k, j \in DOMAIN lastOp.results :
             k # j => lastOp.results[k].mentionId # lastOp.results[j].mentionId
        /\ \A k \in DOMAIN lastOp.results :
             LET r == lastOp.results[k] IN
             /\ r.mentionId \in lastOp.unanalyzed
             /\ mentions[r.mentionId].user_id = lastOp.user
             /\ \/ r.success /\ r.sentiment.label \in Labels /\ r.error = NullStr
                \/ ~r.success /\ r.error # NullStr

\* A batch response cut short by the batch size.
C10_Witness ==
  /\ lastOp.kind = "analyze" /\ lastOp.mode = "batch"
  /\ lastOp.batchSize # 0
  /\ lastOp.batchSize < Cardinality(lastOp.unanalyzed)
  /\ Len(lastOp.results) = lastOp.batchSize

\* Whether a reply the classifier gave over HTTP keeps the contract of the
\* classifier: a score from 0 to 10 and a label of the enumeration.
ReplyInContract(reply) ==
  /\ reply.score >= 0 /\ reply.score <= 1000
  /\ reply.label \in {"positive", "negative", "neutral"}

\* C12: every sentiment stored on a mention has a sentiment_score from 0 to
\* 10 and a sentiment_label that is positive, negative or neutral; and an
\* item whose classifier reply breaks the contract fails and leaves its
\* mention as it was.
C12_PersistedSentimentInContract ==
  [][ /\ \A i \in DOMAIN mentions' :
           mentions'[i].sentiment_score # NullNum =>
             /\ mentions'[i].sentiment_score >= 0
             /\ mentions'[i].sentiment_score <= 100
             /\ mentions'[i].sentiment_label \in {"positive", "negative", "neutral"}
      /\ (lastOp'.kind = "analyze" /\ lastOp'.mode \in {"ids", "batch"}) =>
           \A k \in DOMAIN lastOp'.results :
             (lastOp'.results[k].calls = 1 /\ lastOp'.replies[k].http
                /\ ~ReplyInContract(lastOp'.replies[k]))
             => /\ ~lastOp'.results[k].success
                /\ mentions'[lastOp'.results[k].mentionId]
                     = mentions[lastOp'.results[k].mentionId] ]_vars

\* C13: in a by-IDs request an id that is not a mention of the requester
\* gets a failed result, without a classifier call and without a store
\* write for it; and an analyze request of one tenant, in any mode, leaves
\* every mention of every other tenant as it was.
C13_ForeignMentionsUntouched ==
  [][ lastOp'.kind = "analyze" =>
        /\ Len(mentions') = Len(mentions)
        /\ \A i \in DOMAIN mentions :
             mentions[i].user_id # lastOp'.user => mentions'[i] = mentions[i]
        /\ lastOp'.mode = "ids" =>
             \A k \in DOMAIN lastOp'.results :
               LET r == lastOp'.results[k] IN
               (r.mentionId \notin DOMAIN mentions
                  \/ mentions[r.mentionId].user_id # lastOp'.user)
               => /\ ~r.success
                  /\ r.error # NullStr
                  /\ r.calls = 0
                  /\ r.writes = 0 ]_vars

\* A by-IDs response that refuses a mention of another tenant and holds a
\* newly analyzed mention of the requester.
C13_Witness ==
  /\ lastOp.kind = "analyze" /\ lastOp.mode = "ids"
  /\ \E k, j \in DOMAIN lastOp.results :
       /\ lastOp.results[k].mentionId \in DOMAIN mentions
       /\ mentions[lastOp.results[k].mentionId].user_id # lastOp.user
       /\ ~lastOp.results[k].success
       /\ lastOp.results[j].success /\ ~lastOp.results[j].cached

\* The updates of mention i that concurrent requests have made.
UpdatesOf(i) ==
  {<<p, k>> \in Slots \X (1..NumMentions + MaxIds) :
     /\ inflight[p].pc # "idle"
     /\ k \in DOMAIN inflight[p].results
     /\ inflight[p].results[k].mentionId = i
     /\ inflight[p].results[k].writes = 1
     /\ inflight[p].results[k].success}

\* C17: whatever way concurrent by-IDs and batch requests of one tenant
\* interleave, no step changes the score, label or reasoning of a mention
\* that has a score, and the sentiment of every mention is written by at
\* most one update.
C17_ConcurrentWritesAtMostOnce ==
  [][ /\ \A i \in DOMAIN mentions :
           Scored(mentions[i]) =>
             /\ mentions'[i].sentiment_score = mentions[i].sentiment_score
             /\ mentions'[i].sentiment_label = mentions[i].sentiment_label
             /\ mentions'[i].sentiment_reasoning = mentions[i].sentiment_reasoning
      /\ \A i \in DOMAIN mentions' : Cardinality(UpdatesOf(i)') <= 1 ]_vars

\* C21: the remaining count of a batch response is at most the number of
\* the tenant's unanalyzed mentions the request did not select: with n
\* unanalyzed mentions and batch size b (10 when the request names none),
\* remaining <= max(0, n - b), whatever the outcomes of the items.
C21_RemainingAtMostUnhandled ==
  (lastOp.kind = "analyze" /\ lastOp.mode = "batch") =>
    LET b == IF lastOp.batchSize = 0 THEN 10 ELSE lastOp.batchSize
        n == Cardinality(lastOp.unanalyzed)
    IN  lastOp.remaining <= (IF n - b > 0 THEN n - b ELSE 0)

\* C30: within one by-IDs or batch request no item is classified more than
\* once (no retry), a store update is made only for the item just
\* classified, and no mention is classified more than once.
C30_ClassifiedAtMostOncePerRequest ==
  (lastOp.kind = "analyze" /\ lastOp.mode \in {"ids", "batch"}) =>
    /\ \A k \in DOMAIN lastOp.results :
         /\ lastOp.results[k].calls <= 1
         /\ lastOp.results[k].writes <= lastOp.results[k].calls
    /\ \A id \in 1..(NumMentions + 1) :
         Cardinality({k \in DOMAIN lastOp.results :
                        /\ lastOp.results[k].mentionId = id
                        /\ lastOp.results[k].calls >= 1}) <= 1

\* The mentions of tenant u without a score.
Unscored(ments, u) == {i \in DOMAIN ments : ments[i].user_id = u /\ ~Scored(ments[i])}

\* C27: with a classifier and a store that never fail and no ingestion, a
\* batch request of a tenant with n unscored mentions and batch size b (10
\* when the request names none) leaves n - min(b, n) of them unscored; with
\* n = 0 it reports that no unanalyzed mentions were found, with analyzed 0
\* and without a classifier call or a write; and a tenant that keeps
\* sending batch requests ends up, for good, without unscored mentions.
C27_RepeatedBatchesDrainUnscored ==
  /\ [][ (lastOp'.kind = "analyze" /\ lastOp'.mode = "batch") =>
           LET b == IF lastOp'.batchSize = 0 THEN 10 ELSE lastOp'.batchSize
               n == Cardinality(Unscored(mentions, lastOp'.user))
               n2 == Cardinality(Unscored(mentions', lastOp'.user))
           IN  /\ n2 = n - (IF b < n THEN b ELSE n)
               /\ n > 0 => n2 < n
               /\ n = 0 => /\ lastOp'.message = "No unanalyzed mentions found"
                           /\ lastOp'.analyzed = 0
                           /\ lastOp'.results = <<>>
                           /\ mentions' = mentions ]_vars
  /\ \A u \in {"u1", "u2"} : <>[](Unscored(mentions, u) = {})

\* A tenant whose mentions have all been scored has sent one more batch
\* request and has been told that there is nothing to analyze.
C27_Witness ==
  /\ lastOp.kind = "analyze" /\ lastOp.mode = "batch"
  /\ lastOp.message = "No unanalyzed mentions found"
  /\ lastOp.analyzed = 0
  /\ Unscored(mentions, lastOp.user) = {}
  /\ \E i \in DOMAIN mentions : mentions[i].user_id = lastOp.user /\ Scored(mentions[i])

\* C28: a mention whose classification failed in a batch request keeps null
\* sentiment fields and is still among the rows a later batch request selects
\* from; and a mention without a score whose text the classifier answers
\* properly is eventually scored when its tenant keeps sending batch
\* requests, whatever happens to the tenant's other mentions.
C28_FailedRetriedOthersProgress ==
  /\ [][ (lastOp'.kind = "analyze" /\ lastOp'.mode = "batch") =>
           \A k \in DOMAIN lastOp'.results :
             ~lastOp'.results[k].success =>
               LET id == lastOp'.results[k].mentionId IN
               /\ mentions'[id].sentiment_score = NullNum
               /\ mentions'[id].sentiment_label = NullStr
               /\ mentions'[id].sentiment_reasoning = NullStr
               /\ \E off \in 0..NumMentions :
                    \E i \in DOMAIN SelectUnanalyzed(mentions', lastOp'.user, 1, off) :
                      SelectUnanalyzed(mentions', lastOp'.user, 1, off)[i] = id ]_vars
  /\ \A m \in 1..NumMentions :
       (~Scored(mentions[m]) /\ mentions[m].content \notin FailingTexts)
         ~> Scored(mentions[m])

(***************************************************************************)
(* Properties of the ingest handler (checked under SpecIngest).            *)
(***************************************************************************)
RowsOf(ments, u, acct, m) ==
  {i \in DOMAIN ments : /\ ments[i].user_id = u
                        /\ ments[i].social_account_id = acct
                        /\ ments[i].content = m.content
                        /\ ments[i].author = m.author
                        /\ ments[i].posted_at = m.postedAt}

InSeq(x, s) == \E i \in DOMAIN s : s[i] = x

\* A completed ingest run with forceRefresh = false during which the store
\* refused no insert.
PlainIngestRun(op) ==
  /\ op.kind = "ingest"
  /\ op.status = 200
  /\ ~op.forceRefresh
  /\ op.insertErrors = 0

\* The mentions both of two consecutive runs fetched, as positions in the
\* first run's list.
FetchedByBoth(op1, op2) == {i \in DOMAIN op1.fetched : InSeq(op1.fetched[i], op2.fetched)}

SameAccount(op1, op2) ==
  op1.user = op2.user /\ op1.socialAccountId = op2.socialAccountId

RequestedAccounts(op) ==
  {a \in SocialAccounts : a.id = op.socialAccountId /\ a.user_id = op.user}

\* C11: an ingest request for an inactive account, for an account whose
\* token_expires_at is earlier than now, or whose platform fetch fails is
\* rejected and leaves the mentions (and the analytics) unchanged; for an
\* inactive or expired account no platform fetch is made.  An account
\* whose token expires exactly now is not treated as expired.
C11_UnusableAccountOrFetchFailureRejected ==
  [][ lastOp'.kind = "ingest" =>
        /\ \A a \in RequestedAccounts(lastOp') :
             lastOp'.platform # NullStr =>
               /\ ~a.is_active =>
                    /\ lastOp'.status = 400 /\ lastOp'.fetchCalls = 0
                    /\ mentions' = mentions /\ analytics' = analytics
               /\ (a.is_active /\ a.token_expires_at # NullNum
                     /\ a.token_expires_at < now) =>
                    /\ lastOp'.status = 401 /\ lastOp'.fetchCalls = 0
                    /\ mentions' = mentions /\ analytics' = analytics
               /\ (a.is_active /\ a.token_expires_at = now
                     /\ lastOp'.platform \in {"instagram", "facebook", "twitter", "linkedin"})
                    => lastOp'.fetchCalls = 1 /\ lastOp'.status \in {200, 500}
        /\ (lastOp'.fetchCalls = 1 /\ lastOp'.status # 200) =>
             /\ lastOp'.status = 500
             /\ mentions' = mentions /\ analytics' = analytics ]_vars

\* A request for the account with the expired token has been rejected
\* while the table holds rows of earlier ingests.
C11_Witness ==
  /\ lastOp.kind = "ingest"
  /\ lastOp.socialAccountId = "a4"
  /\ lastOp.status = 401
  /\ lastOp.fetchCalls = 0
  /\ Len(mentions) > 0

\* The inserts of mention m that concurrent ingest requests have made, as
\* (slot, position) pairs.
InsertsOf(m) ==
  {<<p, k>> \in Slots \X (1..MaxFetched) :
     /\ inflight[p].pc # "idle"
     /\ inflight[p].handler = "ingest"
     /\ k \in DOMAIN inflight[p].inserted
     /\ inflight[p].inserted[k] = m}

\* C19: a concurrent ingest request without forceRefresh inserts a fetched
\* mention whenever its own lookup found no row, whether or not another
\* request has inserted the mention since: the rows of a (tenant, account,
\* content, author, posted_at) are as many as the inserts the requests
\* made for it, so two requests that both pass the lookup before either
\* inserts leave two such rows.
C19_ConcurrentIngestsDuplicate ==
  \A c \in Contents :
    Cardinality(RowsOf(mentions, "u1", "a1", SocialMention(c)))
      = Cardinality(InsertsOf(SocialMention(c)))

\* Two requests have each fetched the same single mention, each inserted
\* it and skipped nothing; two rows of that identity are stored.
C19_Witness ==
  \E c \in Contents :
    /\ \A p \in Slots :
         /\ inflight[p].pc = "done"
         /\ inflight[p].handler = "ingest"
         /\ ~inflight[p].forceRefresh
         /\ inflight[p].fetched = <<SocialMention(c)>>
         /\ inflight[p].inserted = <<SocialMention(c)>>
         /\ inflight[p].skipped = <<>>
    /\ Cardinality(RowsOf(mentions, "u1", "a1", SocialMention(c))) >= 2

\* How many times a fetch returned mention m.
TimesFetched(op, m) == Cardinality({j \in DOMAIN op.fetched : op.fetched[j] = m})

\* C22: an ingest with forceRefresh = false adds no row of a (tenant,
\* account, content, author, posted_at) of which the store holds one row or
\* more when the request starts, several rows included; an ingest with
\* forceRefresh = true (the store refusing no insert) adds one row for each
\* fetched mention, whether or not a matching row exists.
C22_NoRefreshNeverAddsToExisting ==
  [][ (lastOp'.kind = "ingest" /\ lastOp'.status = 200) =>
        \A i \in DOMAIN lastOp'.fetched :
          LET m == lastOp'.fetched[i]
              rows == RowsOf(mentions, lastOp'.user, lastOp'.socialAccountId, m)
              rows2 == RowsOf(mentions', lastOp'.user, lastOp'.socialAccountId, m)
          IN  /\ (~lastOp'.forceRefresh /\ Cardinality(rows) >= 1) => rows2 = rows
              /\ (lastOp'.forceRefresh /\ lastOp'.insertErrors = 0) =>
                   Cardinality(rows2) = Cardinality(rows) + TimesFetched(lastOp', m) ]_vars

\* C29: a successful ingest response reports fetched = inserted + skipped,
\* inserted is the number of rows the request added to the mentions table,
\* and every skipped mention has a matching row and got no new one.
C29_FetchedIsInsertedPlusSkipped ==
  [][ (lastOp'.kind = "ingest" /\ lastOp'.status = 200) =>
        /\ Len(lastOp'.fetched) = Len(lastOp'.inserted) + Len(lastOp'.skipped)
        /\ Len(lastOp'.inserted) = Len(mentions') - Len(mentions)
        /\ \A k \in DOMAIN lastOp'.skipped :
             RowsOf(mentions', lastOp'.user, lastOp'.socialAccountId, lastOp'.skipped[k]) # {} ]_vars

(***************************************************************************)
(* Properties of the schedule handlers (checked under SpecSchedule, and    *)
(* under SpecBilling where the subscription changes).                      *)
(***************************************************************************)
ClaimedScheduleLimit == [starter |-> 30, professional |-> 100]

\* The tenant's number of rows with status = scheduled, in a table.
ScheduledCount(posts, bid) ==
  Cardinality({i \in DOMAIN posts : posts[i].business_id = bid
                                     /\ posts[i].status = "scheduled"})

TenantsOf(u) == {b \in DOMAIN businesses : businesses[b].user_id = u}

IsClockValue(t) == t \notin {Undefined, InvalidDate}

\* The step handles a schedule-create request (op is its response).
IsCreate(op) == op.kind = "schedule"

\* Everything a create request needs but the time and the room under the
\* limit: a user with one business and a subscription that is active or
\* trialing, content or a generated post of the tenant, and one active
\* account of the tenant on the platform.
CreateWellFormed(op) ==
  /\ op.user # NoUser
  /\ Cardinality(TenantsOf(op.user)) = 1
  /\ \A b \in TenantsOf(op.user) :
       /\ businesses[b].subscription_status \in {"active", "trialing"}
       /\ Cardinality({a \in SocialAccounts : a.business_id = b /\ a.is_active
                                               /\ a.platform = op.platform}) = 1
       /\ \/ op.postId = 0 /\ op.content # NullStr
          \/ /\ op.postId \in DOMAIN generatedPosts
             /\ generatedPosts[op.postId].business_id = b

TimeInFuture(op) == IsClockValue(op.scheduledTime) /\ op.scheduledTime > now

\* C4: a schedule-create request of a tenant whose number of scheduled rows
\* equals the limit of its tier (starter 30, professional 100) creates no
\* row and leaves the count unchanged, and is answered 429 when nothing
\* else is wrong with it; a request made when the count is the limit minus
\* one, with nothing else wrong and the store accepting the insert,
\* succeeds, adds one row and brings the count to exactly the limit.
C4_LimitBoundary ==
  [][ IsCreate(lastOp') =>
        \A b \in TenantsOf(lastOp'.user) :
          LET tier == businesses[b].subscription_tier
              count == ScheduledCount(scheduledPosts, b)
              count2 == ScheduledCount(scheduledPosts', b)
          IN  tier \in DOMAIN ClaimedScheduleLimit =>
                /\ count = ClaimedScheduleLimit[tier] =>
                     /\ lastOp'.status # 200
                     /\ scheduledPosts' = scheduledPosts
                     /\ count2 = count
                     /\ (CreateWellFormed(lastOp') /\ TimeInFuture(lastOp')
                           => lastOp'.status = 429)
                /\ (/\ count = ClaimedScheduleLimit[tier] - 1
                    /\ CreateWellFormed(lastOp') /\ TimeInFuture(lastOp')
                    /\ lastOp'.error # "insert refused")
                     => /\ lastOp'.status = 200
                        /\ Len(scheduledPosts') = Len(scheduledPosts) + 1
                        /\ count2 = ClaimedScheduleLimit[tier] ]_vars

\* A tenant that a create request brought to its limit has just been
\* refused a further post with 429.
C4_Witness ==
  /\ IsCreate(lastOp)
  /\ lastOp.status = 429
  /\ \E b \in TenantsOf(lastOp.user) :
       /\ businesses[b].subscription_tier \in DOMAIN ClaimedScheduleLimit
       /\ ScheduledCount(scheduledPosts, b)
            = ClaimedScheduleLimit[businesses[b].subscription_tier]
       /\ \E i \in DOMAIN scheduledPosts :
            /\ scheduledPosts[i].business_id = b
            /\ scheduledPosts[i].created_at >= 0
            /\ scheduledPosts[i].status = "scheduled"

\* C5: whatever create, update and cancel requests and subscription changes
\* have been handled, a tenant's number of rows with status = scheduled is
\* at most the limit of the tenant's current tier (starter 30,
\* professional 100).
C5_CountWithinCurrentTier ==
  \A b \in DOMAIN businesses :
    businesses[b].subscription_tier \in DOMAIN ClaimedScheduleLimit
      => ScheduledCount(scheduledPosts, b)
           <= ClaimedScheduleLimit[businesses[b].subscription_tier]

\* A create request whose time is not after the clock it is validated
\* against is refused, with 400 when nothing else is wrong with it, and
\* changes neither the scheduled posts nor the generated posts.
PastTimeRefused ==
  (IsCreate(lastOp') /\ IsClockValue(lastOp'.scheduledTime)
     /\ lastOp'.scheduledTime <= now)
  => /\ lastOp'.status \in {400, 401, 403, 404}
     /\ (CreateWellFormed(lastOp') => lastOp'.status = 400)
     /\ scheduledPosts' = scheduledPosts
     /\ generatedPosts' = generatedPosts

\* A row created by the step is due strictly after its creation time.
CreatedBeforeDue ==
  \A i \in DOMAIN scheduledPosts' :
    i \notin DOMAIN scheduledPosts
      => scheduledPosts'[i].scheduled_time > scheduledPosts'[i].created_at

\* C6: a schedule-create request whose scheduled_time is less than or equal
\* to the current time is rejected with 400, creates no scheduled post and
\* changes no generated post; and every row that is created has a
\* scheduled_time strictly later than its creation time.
C6_PastTimeRefusedCreatedBeforeDue ==
  [][ PastTimeRefused /\ CreatedBeforeDue ]_vars

\* C8: the status of a scheduled post changes only from scheduled to
\* published, cancelled or failed: no step moves a post out of published,
\* cancelled or failed, and a cancel request changes the status of a post
\* only if the post is scheduled.
C8_StatusOnlyLeavesScheduled ==
  [][ \A i \in DOMAIN scheduledPosts :
        (i \in DOMAIN scheduledPosts'
           /\ scheduledPosts'[i].status # scheduledPosts[i].status)
        => /\ scheduledPosts[i].status = "scheduled"
           /\ scheduledPosts'[i].status \in {"published", "cancelled", "failed"} ]_vars

\* C16: a cancel request neither removes nor adds a row, changes no field
\* but status, changes no row but the one it names and no row of another
\* tenant; when it names a scheduled post of the requesting tenant it is
\* answered 200 with the post's status set to cancelled, unless the store
\* refuses the update, in which case it is answered 500 and nothing
\* changes.
C16_CancelKeepsRowFlipsStatus ==
  [][ lastOp'.kind = "cancel" =>
        /\ Len(scheduledPosts') = Len(scheduledPosts)
        /\ \A i \in DOMAIN scheduledPosts :
             LET old == scheduledPosts[i]
                 new == scheduledPosts'[i]
                 owned == old.business_id \in TenantsOf(lastOp'.user)
             IN  /\ [new EXCEPT !.status = old.status] = old
                 /\ (i # lastOp'.postId \/ ~owned) => new = old
                 /\ (i = lastOp'.postId /\ owned /\ old.status = "scheduled") =>
                      /\ lastOp'.status \in {200, 500}
                      /\ lastOp'.status = 200 => new.status = "cancelled"
                      /\ lastOp'.status = 500 => new = old ]_vars

\* A scheduled post has been cancelled by its tenant; the post of the
\* other tenant is still scheduled.
C16_Witness ==
  /\ lastOp.kind = "cancel"
  /\ lastOp.status = 200
  /\ lastOp.before = "scheduled"
  /\ lastOp.postId \in DOMAIN scheduledPosts
  /\ scheduledPosts[lastOp.postId].business_id \in TenantsOf(lastOp.user)
  /\ scheduledPosts[lastOp.postId].status = "cancelled"
  /\ scheduledPosts[1].status = "scheduled"

\* C24: an update request neither adds nor removes a row and changes no
\* generated post; it changes no field but content, hashtags,
\* scheduled_time and image_url, the status never, and no row but the one
\* it names, and that one only when it belongs to the requesting tenant; a
\* request of a tenant that names a row the tenant does not own is
\* answered 404 and changes nothing.
C24_UpdateChangesOnlyOwnEditableFields ==
  [][ lastOp'.kind = "update" =>
        /\ Len(scheduledPosts') = Len(scheduledPosts)
        /\ generatedPosts' = generatedPosts
        /\ \A i \in DOMAIN scheduledPosts :
             LET old == scheduledPosts[i]
                 new == scheduledPosts'[i]
                 owned == old.business_id \in TenantsOf(lastOp'.user)
             IN  /\ [new EXCEPT !.content = old.content,
                                !.hashtags = old.hashtags,
                                !.scheduled_time = old.scheduled_time,
                                !.image_url = old.image_url] = old
                 /\ new.status = old.status
                 /\ (i # lastOp'.postId \/ ~owned) => new = old
        /\ (/\ Cardinality(TenantsOf(lastOp'.user)) = 1
            /\ lastOp'.postId # 0
            /\ \/ lastOp'.postId \notin DOMAIN scheduledPosts
               \/ scheduledPosts[lastOp'.postId].business_id \notin TenantsOf(lastOp'.user))
           => /\ lastOp'.status = 404
              /\ scheduledPosts' = scheduledPosts ]_vars

\* A tenant has updated the four fields of a post of its own that is no
\* longer scheduled: the status is as it was, and the post of the other
\* tenant is untouched.
C24_Witness ==
  /\ lastOp.kind = "update"
  /\ lastOp.status = 200
  /\ lastOp.postId \in DOMAIN scheduledPosts
  /\ scheduledPosts[lastOp.postId].business_id \in TenantsOf(lastOp.user)
  /\ scheduledPosts[lastOp.postId].content = "edited"
  /\ scheduledPosts[lastOp.postId].hashtags = "[#new]"
  /\ scheduledPosts[lastOp.postId].image_url = "image"
  /\ scheduledPosts[lastOp.postId].scheduled_time = 0
  /\ scheduledPosts[lastOp.postId].status = "published"
  /\ scheduledPosts[1] = ScheduledPostRow(2, "a2", "twitter", "text", 1, -1)

\* The slots of create requests that have been answered 200 after reading
\* a scheduled count of n.
CreatedAfterReading(n) ==
  {p \in Slots : /\ inflight[p].pc = "done"
                  /\ inflight[p].handler = "schedule"
                  /\ inflight[p].status = 200
                  /\ inflight[p].scheduledCount = n}

\* C18: a create request that read a scheduled count below the limit and
\* whose insert the store accepts succeeds whatever other requests have
\* inserted meanwhile; so when two requests of a tenant both read the
\* count limit - 1 before either inserts, both succeed and the tenant has
\* limit + 1 scheduled rows, one above the limit of its tier.
C18_ConcurrentCreatesExceedLimit ==
  /\ \A p \in Slots :
       (inflight[p].pc = "done" /\ inflight[p].handler = "schedule"
          /\ inflight[p].scheduledCount < inflight[p].limit)
       => inflight[p].status \in {200, 400, 500}
  /\ \A b \in TenantsOf("u1") :
       LET limit == ClaimedScheduleLimit[businesses[b].subscription_tier] IN
       /\ ScheduledCount(scheduledPosts, b)
            >= limit - 1 + Cardinality(CreatedAfterReading(limit - 1))
       /\ Cardinality(CreatedAfterReading(limit - 1)) >= 2
            => ScheduledCount(scheduledPosts, b) > limit

\* Two create requests of the tenant have both succeeded after reading
\* limit - 1, and the tenant's scheduled count is limit + 1.
C18_Witness ==
  /\ \A p \in Slots : inflight[p].pc = "done" /\ inflight[p].handler = "schedule"
                         /\ inflight[p].status = 200
  /\ \E b \in TenantsOf("u1") :
       LET limit == ClaimedScheduleLimit[businesses[b].subscription_tier] IN
       /\ \A p \in Slots : inflight[p].scheduledCount = limit - 1
       /\ ScheduledCount(scheduledPosts, b) = limit + 1

\* The place of a status in the life of a generated post.
StatusRank(status) ==
  CASE status = "draft" -> 1
    [] status = "scheduled" -> 2
    [] status = "published" -> 3

\* C23: a generated post is created as a draft and no step moves the
\* status of a generated post back along draft, scheduled, published; a
\* create request by postId that succeeds leaves the generated post
\* scheduled, with scheduled_post_id naming the scheduled post the request
\* created, a post of the same tenant.
C23_GeneratedStatusOnlyForward ==
  [][ /\ \A g \in DOMAIN generatedPosts' :
           IF g \in DOMAIN generatedPosts
           THEN StatusRank(generatedPosts'[g].status) >= StatusRank(generatedPosts[g].status)
           ELSE generatedPosts'[g].status = "draft"
      /\ (IsCreate(lastOp') /\ lastOp'.status = 200 /\ lastOp'.postId # 0) =>
           /\ generatedPosts'[lastOp'.postId].status = "scheduled"
           /\ generatedPosts'[lastOp'.postId].scheduled_post_id = lastOp'.created
           /\ lastOp'.created \notin DOMAIN scheduledPosts
           /\ lastOp'.created \in DOMAIN scheduledPosts'
           /\ scheduledPosts'[lastOp'.created].business_id
                = generatedPosts[lastOp'.postId].business_id ]_vars

(***************************************************************************)
(* Properties of the generate handler (checked under SpecGenerate).        *)
(***************************************************************************)
ClaimedGenerateLimit == [starter |-> 50, professional |-> 200]

\* The tenant's usage rows created in the calendar month of the clock.
MonthRows(b) ==
  {i \in DOMAIN apiUsage :
     /\ apiUsage[i].business_id = b
     /\ apiUsage[i].created_at \div (TicksPerDay * DaysPerMonth)
          = now \div (TicksPerDay * DaysPerMonth)}

\* The posts the tenant has generated in the current month, as the store
\* records them: posts_generated of the tenant's latest row of the month.
CurrentMonthUsage(b) ==
  IF MonthRows(b) = {} THEN 0
  ELSE apiUsage[CHOOSE i \in MonthRows(b) : \A j \in MonthRows(b) : j <= i].posts_generated

RequestedPosts(op) == IF op.postCount = Undefined THEN DefaultPostCount ELSE op.postCount

\* C7: a generate request with currentMonthUsage + postCount greater than
\* the limit of the tier (starter 50, professional 200) is rejected before
\* any external call: the LLM is not called for it, no generated post is
\* stored and the stored usage is unchanged; a request with
\* currentMonthUsage + postCount equal to the limit is not rejected for
\* quota.
C7_OverQuotaRejectedBeforeGeneration ==
  [][ lastOp'.kind = "generate" =>
        \A b \in TenantsOf(lastOp'.user) :
          LET tier == businesses[b].subscription_tier
              total == CurrentMonthUsage(b) + RequestedPosts(lastOp')
          IN  tier \in DOMAIN ClaimedGenerateLimit =>
                /\ total > ClaimedGenerateLimit[tier] =>
                     /\ lastOp'.status # 200
                     /\ lastOp'.llmCalls = 0
                     /\ generatedPosts' = generatedPosts
                     /\ apiUsage' = apiUsage
                /\ total = ClaimedGenerateLimit[tier] => lastOp'.status # 429 ]_vars

\* The month's usage of a tenant as a usage table records it at time t:
\* posts_generated of the tenant's latest row created in the month of t.
StoredMonthUsage(usage, b, t) ==
  LET rows == {i \in DOMAIN usage :
                 /\ usage[i].business_id = b
                 /\ usage[i].created_at \div (TicksPerDay * DaysPerMonth)
                      = t \div (TicksPerDay * DaysPerMonth)}
  IN  IF rows = {} THEN 0
      ELSE usage[CHOOSE i \in rows : \A j \in rows : j <= i].posts_generated

\* C15: after a generate request that is answered with success, every post
\* the LLM returned is a new generated post of the requesting tenant with
\* status draft, and the tenant's stored usage of the month is the usage
\* the request read plus the requested postCount, however many posts the
\* LLM returned.
C15_DraftsStoredUsageByRequestedCount ==
  [][ (lastOp'.kind = "generate" /\ lastOp'.status = 200) =>
        \A b \in TenantsOf(lastOp'.user) :
          /\ Len(generatedPosts') = Len(generatedPosts) + lastOp'.returned
          /\ \A i \in DOMAIN generatedPosts' :
               IF i \in DOMAIN generatedPosts
               THEN generatedPosts'[i] = generatedPosts[i]
               ELSE /\ generatedPosts'[i].business_id = b
                    /\ generatedPosts'[i].status = "draft"
          /\ StoredMonthUsage(apiUsage', b, now')
               = lastOp'.usage + RequestedPosts(lastOp') ]_vars

\* C25: a generate request whose LLM call fails, or whose reply is not
\* JSON or is JSON without a posts array, is answered with an error (500),
\* stores no generated post and leaves the usage table as it was.
C25_FailedGenerationStoresNothing ==
  [][ (lastOp'.kind = "generate" /\ lastOp'.llmCalls = 1
         /\ lastOp'.reply \in {"error", "not_json", "no_posts"})
      => /\ lastOp'.status = 500
         /\ generatedPosts' = generatedPosts
         /\ apiUsage' = apiUsage ]_vars

\* After a successful generation a request has met a reply without a posts
\* array and has been answered 500.
C25_Witness ==
  /\ lastOp.kind = "generate"
  /\ lastOp.llmCalls = 1
  /\ lastOp.reply = "no_posts"
  /\ lastOp.status = 500
  /\ Len(generatedPosts) > 0
  /\ Len(apiUsage) > 1

\* The concurrent generate requests that have been answered with success.
Generated == {p \in Slots : /\ inflight[p].pc = "done"
                             /\ inflight[p].handler = "generate"
                             /\ inflight[p].status = 200}

\* What a concurrent generate request asked for on top of what it read.
ReadPlusRequested(p) == inflight[p].usage + RequestedPosts(inflight[p])

\* C20: a concurrent generate request is checked against the usage it read
\* alone: when that usage plus its postCount is within the limit it calls
\* the LLM, whatever other requests have read or are generating; and each
\* successful request writes its own reading plus its own postCount, so
\* that after two requests that read the same usage the stored usage is
\* that reading plus the postCount of one of them, never of both.
C20_ConcurrentGeneratesLoseAnIncrement ==
  /\ \A p \in Slots :
       (inflight[p].pc # "idle" /\ inflight[p].handler = "generate") =>
         /\ ReadPlusRequested(p) <= inflight[p].limit => inflight[p].status # 429
         /\ inflight[p].status = 200 => inflight[p].llmCalls = 1
  /\ \A i \in DOMAIN apiUsage :
       i > 1 => \E p \in Generated : apiUsage[i].posts_generated = ReadPlusRequested(p)
  /\ Generated # {} =>
       \A b \in TenantsOf("u1") :
         \E p \in Generated : StoredMonthUsage(apiUsage, b, now) = ReadPlusRequested(p)

\* Two requests have read the same usage, each within the limit on its
\* own and over it together; both called the LLM and succeeded, and the
\* stored usage holds the increment of one of them.
C20_Witness ==
  /\ Generated = Slots
  /\ \A p, q \in Slots : inflight[p].usage = inflight[q].usage
  /\ \A p \in Slots : inflight[p].llmCalls = 1
  /\ \E p, q \in Slots :
       /\ p # q
       /\ inflight[p].usage + RequestedPosts(inflight[p]) + RequestedPosts(inflight[q])
            > inflight[p].limit
       /\ \A b \in TenantsOf("u1") :
            StoredMonthUsage(apiUsage, b, now) = ReadPlusRequested(q)

(***************************************************************************)
(* Properties of the billing webhook (checked under SpecWebhook).          *)
(***************************************************************************)
\* C14: a delivery without signature header or whose signature fails the
\* verification is answered 400 and writes neither businesses nor
\* payment_history, whatever event it carries; businesses and
\* payment_history change only in steps that handle a delivery with a
\* verified signature.
C14_UnverifiedDeliveryWritesNothing ==
  [][ /\ (lastOp'.kind = "webhook" /\ lastOp'.signature # "good") =>
           /\ lastOp'.status = 400
           /\ businesses' = businesses
           /\ paymentHistory' = paymentHistory
      /\ (businesses' # businesses \/ paymentHistory' # paymentHistory) =>
           lastOp'.kind = "webhook" /\ lastOp'.signature = "good" ]_vars

\* A delivery with a wrong signature that names the end of a tenant's
\* subscription has been refused, after a verified checkout was recorded.
C14_Witness ==
  /\ lastOp.kind = "webhook"
  /\ lastOp.signature = "bad"
  /\ lastOp.type = "customer.subscription.deleted"
  /\ lastOp.status = 400
  /\ \E b \in DOMAIN businesses :
       businesses[b].stripe_customer_id = "cus_1"
         /\ businesses[b].subscription_status = "active"
  /\ \E b \in DOMAIN businesses : businesses[b].user_id = "u3"

(***************************************************************************)
(* Properties of the subscription gate (checked under SpecSubscription).   *)
(***************************************************************************)
\* The step handles a request that needs a subscription: generate or
\* schedule-create.
NeedsSubscription(op) == op.kind \in {"generate", "schedule"}

\* The tenants without a subscription that is active or trialing.
Lapsed(u) ==
  {b \in TenantsOf(u) : businesses[b].subscription_status \notin {"active", "trialing"}}

====
